---- MODULE Spec2Model ----
(***************************************************************************)
(* Model of the fluent-ai real-time translation pipeline:                  *)
(*   VADProcessor and AudioCaptureThread   (src/audio_capture_thread.py)   *)
(*   ASRTranslationSynthesisThread         (src/fluentai/asr_...thread.py) *)
(*   BlackHoleReproductionThread           (src/fluentai/blackhole_...py)  *)
(*   DatabaseLogger                        (src/fluentai/database_logger)  *)
(*   the two queue.Queue objects of RealTimeTranslator                     *)
(***************************************************************************)
EXTENDS Integers, Sequences, FiniteSets, TLC

VARIABLES
    vad,            \* VADProcessor fields
    vad_result,     \* the dict returned by the latest process_frame call
    now,            \* time.time(), in ms
    n_calls,        \* number of process_frame calls made so far
    frame_len_in,   \* len(frame) of the latest process_frame call
    \* AudioCaptureThread
    buffer,             \* CircularAudioBuffer: the window [lo, hi) of appended samples it holds
    current_recording,  \* None or the accumulator
    recording_start_time,
    stats,
    session_id,
    is_running,
    stop_event,
    thread,             \* self.thread: 0 or the index of the latest _run thread
    thread_pc,          \* where each _run thread (and the callback of its stream) stands
    sr_frame,           \* per thread: locals of a _stop_recording call waiting on the logger
    host_pc,            \* the caller of start()/stop(): "idle" or "joining"
    limit,              \* what the run explores: [blocks, threads, faults]
    faults,             \* calls that failed so far (raised, or came back empty)
    \* queues of RealTimeTranslator
    maxsize,
    asr_queue,
    output_queue,
    \* ASRTranslationSynthesisThread
    w_pc,
    w_job,              \* None or the job in hand
    w_stop_event,
    translate,          \* src_lang # dst_lang
    \* BlackHoleReproductionThread
    p_pc,
    p_chunk,            \* None or the chunk in hand
    p_stop_event,
    \* DatabaseLogger
    db_lock,            \* "free" or the stage holding DatabaseLogger.lock
    db_rows,            \* the rows inserted into translation_logs, as a set
    \* history
    next_id,            \* accumulators created so far
    put_attempts,       \* ids of the accumulators handed to asr_queue.put, in call order
    stop_calls,         \* ids of the accumulators _stop_recording was entered with
    d1_log,             \* ids of the accumulators enqueued into D1, in order
    d2_log,             \* source utterances of the chunks enqueued into D2, in order
    voice_run,          \* length of the current run of voice frames in the input
    had_voice_run,      \* the input held a run of voice frames reaching the threshold
    \* LazyModelLoader
    max_cache_size,
    translation_models, \* _translation_models: the dict, as its entries in insertion order
    loading_status,     \* _loading_status: the keys marked as being loaded
    calls,              \* per caller thread: the frame of its get_model / load_all_for_languages call
    next_model,         \* handles created by pipeline(...) so far
    n_ops,              \* calls of get_model and load_all_for_languages made so far
    pipeline_calls,     \* per language pair: invocations of pipeline(...)
    handed,             \* <<key, handle>> of every handle a get_model call returned
    evicted,            \* keys removed from the cache so far
    use_order,          \* cached keys, least recently used (inserted or hit) first
    \* the statistics of AudioCaptureThread read and reset from other threads
    cb_pc,              \* the callback between its two counter updates: "idle" or "voice"
    seen_stats,         \* None or the counters the latest get_stats() returned
    \* a CircularAudioBuffer with its contents
    ring,               \* sample_rate, buffer_size, the deques buffer and timestamps
    ring_total,         \* samples appended since construction or the latest clear()
    ring_next,          \* samples appended so far; a sample is named by its number
    ring_read,          \* None or the latest get_samples call: argument and result
    \* JitterBuffer of BlackHoleReproductionThread
    jitter,             \* the chunks in JitterBuffer.buffer, each as its number of samples
    jit_in,             \* samples given to add_chunk so far
    jit_out,            \* samples taken by the playback thread and written to the stream
    flush_pc,           \* stop() of the playback stage: "idle", "test", "get" or "done"
    \* single calls followed on their own
    synth,              \* the worker's synthesis step: the decoded samples, the chunk put into D2
    long_audio,         \* a transcribe_long_audio call: its input, the model's calls, its result
    written,            \* the playback of one item of D2: the item, the stream.write calls
    decisions,          \* the decisions process_frame gave so far: "start", "stop" or "both"
    translator          \* RealTimeTranslator: its start()/stop() calls and its stage threads

vadVars == <<vad, vad_result, now, n_calls, frame_len_in>>

capVars == <<buffer, current_recording, recording_start_time, stats, session_id,
             is_running, stop_event, thread, thread_pc, sr_frame, host_pc, limit>>

queueVars == <<maxsize, asr_queue, output_queue>>

workerVars == <<w_pc, w_job, w_stop_event, translate>>

playVars == <<p_pc, p_chunk, p_stop_event>>

dbVars == <<db_lock, db_rows>>

histVars == <<next_id, put_attempts, stop_calls, d1_log, d2_log, voice_run, had_voice_run>>

\* everything but the capture stage and D1
downVars == <<output_queue, workerVars, playVars, db_rows, d2_log>>

loaderVars == <<max_cache_size, translation_models, loading_status, calls, next_model,
                n_ops, pipeline_calls, handed, evicted, use_order>>

statVars == <<cb_pc, seen_stats>>

ringVars == <<ring, ring_total, ring_next, ring_read>>

jitVars == <<jitter, jit_in, jit_out, flush_pc>>

callVars == <<synth, long_audio, written, decisions, translator>>

partVars == <<statVars, ringVars, jitVars, callVars>>

\* the capture stage but for its counters
capNoStats == <<buffer, current_recording, recording_start_time, session_id,
                is_running, stop_event, thread, thread_pc, sr_frame, host_pc, limit>>

vars == <<vadVars, capVars, queueVars, workerVars, playVars, dbVars, histVars, faults,
          loaderVars, partVars>>

\* ------------------------------------------------------------------------
\* Bounds of the model
\* ------------------------------------------------------------------------
MaxCalls == 9           \* process_frame calls explored on a bare VADProcessor
MaxThresholdFrames == 3 \* largest threshold, in frames, tried on a bare VADProcessor
MaxBlocks == 8          \* device blocks delivered to a capture stage run alone
MaxPipeBlocks == 5      \* device blocks delivered to the capture stage of the pipeline
MaxRestartBlocks == 6   \* device blocks delivered to a capture stage that is restarted
MaxThreads == 2         \* _run threads created by start()
MaxQueue == 2           \* largest queue capacity tried
MaxFaults == 1          \* failing calls in one run of the pipeline
PipeVoiceMs == 30       \* voice_threshold_ms of the pipeline's capture stage
PipeSilenceMs == 30     \* silence_threshold_ms of the pipeline's capture stage
MaxLoaderCalls == 3     \* get_model / load_all_for_languages calls made on it
MaxCache == 2           \* largest max_cache_size tried
MaxWorkerBlocks == 4    \* device blocks delivered while the worker's passes are followed
MaxStatFrames == 3      \* frames counted while the counters are read and reset
MaxRing == 3            \* largest sample rate (samples per second) of a buffer driven alone
MaxRingSamples == 5     \* samples appended to a buffer driven alone
MaxRingBlock == 2       \* largest block given to add_samples
MaxJitterSamples == 3   \* samples given to add_audio_chunk in one session
MaxChunkSamples == 2    \* largest chunk given to add_audio_chunk
MaxDecodedLen == 3      \* longest array of decoded samples given to the normalisation
MaxAmplitude == 2       \* largest absolute sample value of a decoded array
MaxAudioHalfSeconds == 5 \* longest audio given to transcribe_long_audio, in half seconds
MaxChunkLength == 2     \* largest chunk_length tried, in seconds
MaxLongFaults == 2      \* failing calls in one transcribe_long_audio call
MaxItemSamples == 2100  \* longest item of D2 played sub-chunk by sub-chunk
MaxStartCalls == 2      \* start() calls made on one RealTimeTranslator

\* ------------------------------------------------------------------------
\* Program constants
\* ------------------------------------------------------------------------
SampleRate == 16000
FrameDurations == {10, 20, 30}
ChunkSize == 480            \* AudioCaptureThread chunk_size
CaptureFrameDuration == 30  \* frame_duration AudioCaptureThread gives its VADProcessor, ms
BufferDurationMs == 1000    \* buffer_duration = 1.0 s
PreRollMs == 200            \* get_duration_samples(0.2)
DefaultVoiceThresholdMs == 200    \* voice_threshold_ms
DefaultSilenceThresholdMs == 400  \* silence_threshold_ms
QueueMaxsize == 10          \* queue.Queue(maxsize=10)
DefaultMaxCacheSize == 128  \* LazyModelLoader(max_cache_size=128)
PlaybackChunkSize == 1024   \* chunk_size of BlackHoleReproductionThread.run

\* Python's None; an optional value x is held as <<x>>
None == <<>>

Some(x) == <<x>>

TheValue(opt) == opt[1]

\* int(x / y) for non-negative x and positive y
IntDiv(x, y) == x \div y

\* a call of the environment (encoder, device, model, database) fails only
\* while the run has failures left to explore
Failing(bad) ==
    /\ bad => faults < limit.faults
    /\ faults' = IF bad THEN faults + 1 ELSE faults

\* ------------------------------------------------------------------------
\* LazyModelLoader
\* ------------------------------------------------------------------------
\* the language pairs with a model configuration
TRANSLATION_MODELS ==
    { <<"es", "en">>, <<"en", "es">>, <<"es", "de">>, <<"de", "es">>, <<"es", "fr">>,
      <<"fr", "es">>, <<"en", "de">>, <<"de", "en">>, <<"en", "fr">>, <<"fr", "en">> }

\* the languages the callers of the model use: de -> fr and fr -> de have no
\* model configuration
Langs == {"es", "de", "fr"}

\* the keys get_model is asked for
RequestKeys == { <<"es", "de">>, <<"es", "fr">>, <<"de", "fr">> }

\* the language lists load_all_for_languages is called with
LangLists == { <<"es", "de">>, <<"de", "fr">> }

\* the threads that call into the loader: the host's own thread and a thread
\* started for the purpose (preload_models_threaded, the GUI's workers)
Callers == {1, 2}

NoKey == <<"", "">>

\* a caller that is not inside the loader; after load_all_for_languages, op,
\* lang_list, pairs and results keep what the call worked on and returned
IdleCall ==
    [ pc |-> "idle", op |-> "none", key |-> NoKey, model |-> None, oldest_key |-> NoKey,
      raised |-> "none", lang_list |-> <<>>, pairs |-> <<>>, idx |-> 0, results |-> <<>> ]

\* the dict _translation_models, kept as its entries in insertion order
DictKeys(d) == {d[i].key : i \in DOMAIN d}

DictGet(d, k) == d[CHOOSE i \in DOMAIN d : d[i].key = k].model

DictSet(d, k, m) ==
    IF k \in DictKeys(d)
    THEN [i \in DOMAIN d |-> IF d[i].key = k THEN [key |-> k, model |-> m] ELSE d[i]]
    ELSE Append(d, [key |-> k, model |-> m])

DictPop(d, k) == SelectSeq(d, LAMBDA e : e.key # k)

\* the key becomes the most recently used one (by an insertion or by a hit
\* of get_model)
Touch(order, k) == Append(SelectSeq(order, LAMBDA x : x # k), k)

\* variants: a loader that does not see the loading marker, a finally clause
\* that leaves the marker, a pair filter that lets every pair through, a
\* next(iter(...)) that yields the newest key
IsBeingLoadedNever(status, key) == FALSE

ClearLoadingKeeps(status, key) == status

SupportedPairAny(pair) == TRUE

OldestKeyNewest(d) == d[Len(d)].key

\* loading_key in self._loading_status
IsBeingLoaded(status, key) == key \in status

\* self._loading_status.pop(loading_key, None)
ClearLoading(status, key) == status \ {key}

\* (src_lang, tgt_lang) in self.TRANSLATION_MODELS
SupportedPair(pair) == pair \in TRANSLATION_MODELS

\* next(iter(self._translation_models)): the first key of the dict
OldestKey(d) == d[1].key

\* pairs_to_load of load_all_for_languages: the nested loops over lang_list
PairsToLoad(lang_list) ==
    LET n == Len(lang_list)
        all == [k \in 1..(n * n) |->
                   <<lang_list[((k - 1) \div n) + 1], lang_list[((k - 1) % n) + 1]>>]
    IN SelectSeq(all, LAMBDA pair : pair[1] # pair[2] /\ SupportedPair(pair))

\* results[f"{src_lang}->{tgt_lang}"] = success
SetResult(results, key, success) ==
    [k \in DOMAIN results \cup {key} |-> IF k = key THEN success ELSE results[k]]

\* _load_translation_model returns value (None or <<handle>>) to its caller:
\* get_model returns it; load_all_for_languages notes the success and goes on
\* with the next pair or returns its results
ReturnFromLoad(f, value) ==
    IF f.op = "get"
    THEN IdleCall
    ELSE LET r == SetResult(f.results, f.key, value # None)
         IN IF f.idx < Len(f.pairs)
            THEN [f EXCEPT !.pc = "lock", !.results = r, !.idx = @ + 1,
                           !.key = f.pairs[f.idx + 1],
                           !.model = None, !.raised = "none"]
            ELSE [IdleCall EXCEPT !.op = "load_all", !.lang_list = f.lang_list,
                                  !.pairs = f.pairs, !.results = r]

\* the handles get_model has given to its callers
Handed(f, value) ==
    IF f.op = "get" /\ value # None THEN handed \cup {<<f.key, TheValue(value)>>} ELSE handed

\* a loader nobody has called yet
LoaderIdle ==
    /\ max_cache_size = DefaultMaxCacheSize
    /\ translation_models = <<>>
    /\ loading_status = {}
    /\ calls = [c \in Callers |-> IdleCall]
    /\ next_model = 0
    /\ n_ops = 0
    /\ pipeline_calls = [k \in TRANSLATION_MODELS |-> 0]
    /\ handed = {}
    /\ evicted = {}
    /\ use_order = <<>>

\* ------------------------------------------------------------------------
\* Parts of the stages that are driven on their own further down; in the
\* pipeline nothing calls them
\* ------------------------------------------------------------------------
\* the deques of a CircularAudioBuffer(sample_rate, buffer_duration)
Ring(sample_rate, buffer_duration_ms) ==
    [ sample_rate |-> sample_rate,
      buffer_size |-> IntDiv(sample_rate * buffer_duration_ms, 1000),
      buffer |-> <<>>,
      timestamps |-> <<>> ]

StatsIdle == cb_pc = "idle" /\ seen_stats = None

RingIdle ==
    /\ ring = Ring(SampleRate, BufferDurationMs)
    /\ ring_total = 0
    /\ ring_next = 0
    /\ ring_read = None

JitterIdle == jitter = <<>> /\ jit_in = 0 /\ jit_out = 0 /\ flush_pc = "idle"

CallsIdle ==
    /\ synth = None
    /\ long_audio = None
    /\ written = None
    /\ decisions = <<>>
    /\ translator = None

PartsIdle == StatsIdle /\ RingIdle /\ JitterIdle /\ CallsIdle

restVars == <<vadVars, capVars, queueVars, workerVars, playVars, dbVars, histVars,
              partVars>>

\* get_model up to the test `model_key in self._translation_models`
GetModel(c, key) ==
    /\ calls[c].pc = "idle"
    /\ n_ops < MaxLoaderCalls
    /\ n_ops' = n_ops + 1
    /\ LET f == [IdleCall EXCEPT !.op = "get", !.key = key]
       IN calls' = [calls EXCEPT ![c] =
                       IF key \in DictKeys(translation_models) THEN [f EXCEPT !.pc = "fetch"]
                       ELSE IF key \notin TRANSLATION_MODELS THEN IdleCall
                       ELSE [f EXCEPT !.pc = "lock"]]
    /\ UNCHANGED <<max_cache_size, translation_models, loading_status, next_model,
                   pipeline_calls, handed, evicted, use_order>>
    /\ UNCHANGED <<restVars, faults>>

\* get_model: return self._translation_models[model_key]; a KeyError when
\* the key has been evicted since the test
GetModelFetch(c) ==
    /\ calls[c].pc = "fetch"
    /\ LET f == calls[c]
       IN IF f.key \in DictKeys(translation_models)
          THEN /\ calls' = [calls EXCEPT ![c] = IdleCall]
               /\ handed' = handed \cup {<<f.key, DictGet(translation_models, f.key)>>}
               /\ use_order' = Touch(use_order, f.key)
          ELSE /\ calls' = [calls EXCEPT ![c] = IdleCall]
               /\ UNCHANGED <<handed, use_order>>
    /\ UNCHANGED <<max_cache_size, translation_models, loading_status, next_model, n_ops,
                   pipeline_calls, evicted>>
    /\ UNCHANGED <<restVars, faults>>

\* _load_translation_model: the block under _loading_lock
LoadLocked(c) ==
    /\ calls[c].pc = "lock"
    /\ LET f == calls[c]
       IN IF f.key \in DictKeys(translation_models)
          THEN /\ calls' = [calls EXCEPT ![c] =
                              ReturnFromLoad(f, Some(DictGet(translation_models, f.key)))]
               /\ handed' = Handed(f, Some(DictGet(translation_models, f.key)))
               /\ use_order' = IF f.op = "get" THEN Touch(use_order, f.key) ELSE use_order
               /\ UNCHANGED loading_status
          ELSE IF IsBeingLoaded(loading_status, f.key)
          THEN /\ calls' = [calls EXCEPT ![c] = ReturnFromLoad(f, None)]
               /\ UNCHANGED <<handed, use_order, loading_status>>
          ELSE /\ loading_status' = loading_status \cup {f.key}
               /\ calls' = [calls EXCEPT ![c] = [f EXCEPT !.pc = "pipeline"]]
               /\ UNCHANGED <<handed, use_order>>
    /\ UNCHANGED <<max_cache_size, translation_models, next_model, n_ops, pipeline_calls,
                   evicted>>
    /\ UNCHANGED <<restVars, faults>>

\* model = pipeline("translation", ...): a new handle, or an exception, which
\* the except clause turns into the return value None
LoadPipeline(c, ok) ==
    /\ calls[c].pc = "pipeline"
    /\ pipeline_calls' = [pipeline_calls EXCEPT ![calls[c].key] = @ + 1]
    /\ IF ok
       THEN /\ next_model' = next_model + 1
            /\ calls' = [calls EXCEPT ![c] =
                            [@ EXCEPT !.pc = "cache_len", !.model = Some(next_model + 1)]]
       ELSE /\ UNCHANGED next_model
            /\ calls' = [calls EXCEPT ![c] =
                            [@ EXCEPT !.pc = "finally", !.raised = "pipeline"]]
    /\ UNCHANGED <<max_cache_size, translation_models, loading_status, n_ops, handed,
                   evicted, use_order>>
    /\ UNCHANGED restVars
    /\ Failing(~ok)

\* _cache_translation_model: len(self._translation_models) >= self.max_cache_size
CacheLen(c) ==
    /\ calls[c].pc = "cache_len"
    /\ calls' = [calls EXCEPT ![c] =
                    [@ EXCEPT !.pc = IF Len(translation_models) >= max_cache_size
                                     THEN "evict_pick" ELSE "insert"]]
    /\ UNCHANGED <<max_cache_size, translation_models, loading_status, next_model, n_ops,
                   pipeline_calls, handed, evicted, use_order>>
    /\ UNCHANGED <<restVars, faults>>

\* oldest_key = next(iter(self._translation_models)); StopIteration on an
\* empty dict, caught by the except clause of _load_translation_model
EvictPick(c) ==
    /\ calls[c].pc = "evict_pick"
    /\ calls' = [calls EXCEPT ![c] =
                    IF translation_models = <<>>
                    THEN [@ EXCEPT !.pc = "finally", !.model = None, !.raised = "evict"]
                    ELSE [@ EXCEPT !.pc = "evict_pop",
                                   !.oldest_key = OldestKey(translation_models)]]
    /\ UNCHANGED <<max_cache_size, translation_models, loading_status, next_model, n_ops,
                   pipeline_calls, handed, evicted, use_order>>
    /\ UNCHANGED <<restVars, faults>>

\* self._translation_models.pop(oldest_key); KeyError when another thread has
\* removed the key, caught by the same except clause
EvictPop(c) ==
    /\ calls[c].pc = "evict_pop"
    /\ LET f == calls[c]
       IN IF f.oldest_key \in DictKeys(translation_models)
          THEN /\ translation_models' = DictPop(translation_models, f.oldest_key)
               /\ evicted' = evicted \cup {f.oldest_key}
               /\ use_order' = SelectSeq(use_order, LAMBDA x : x # f.oldest_key)
               /\ calls' = [calls EXCEPT ![c] = [f EXCEPT !.pc = "insert"]]
          ELSE /\ calls' = [calls EXCEPT ![c] =
                              [f EXCEPT !.pc = "finally", !.model = None, !.raised = "evict"]]
               /\ UNCHANGED <<translation_models, evicted, use_order>>
    /\ UNCHANGED <<max_cache_size, loading_status, next_model, n_ops, pipeline_calls, handed>>
    /\ UNCHANGED <<restVars, faults>>

\* self._translation_models[model_key] = model
CacheInsert(c) ==
    /\ calls[c].pc = "insert"
    /\ translation_models' = DictSet(translation_models, calls[c].key, TheValue(calls[c].model))
    /\ use_order' = Touch(use_order, calls[c].key)
    /\ calls' = [calls EXCEPT ![c] = [@ EXCEPT !.pc = "finally"]]
    /\ UNCHANGED <<max_cache_size, loading_status, next_model, n_ops, pipeline_calls, handed,
                   evicted>>
    /\ UNCHANGED <<restVars, faults>>

\* the finally clause drops the loading marker; the model or None is returned
LoadFinally(c) ==
    /\ calls[c].pc = "finally"
    /\ loading_status' = ClearLoading(loading_status, calls[c].key)
    /\ calls' = [calls EXCEPT ![c] = ReturnFromLoad(@, calls[c].model)]
    /\ handed' = Handed(calls[c], calls[c].model)
    /\ UNCHANGED <<max_cache_size, translation_models, next_model, n_ops, pipeline_calls,
                   evicted, use_order>>
    /\ UNCHANGED <<restVars, faults>>

\* load_all_for_languages up to its first _load_translation_model call (or to
\* its return, when no pair is to be loaded)
LoadAll(c, lang_list) ==
    /\ calls[c].pc = "idle"
    /\ n_ops < MaxLoaderCalls
    /\ n_ops' = n_ops + 1
    /\ LET pairs == PairsToLoad(lang_list)
           f == [IdleCall EXCEPT !.op = "load_all", !.lang_list = lang_list,
                                 !.pairs = pairs]
       IN calls' = [calls EXCEPT ![c] =
                       IF pairs = <<>> THEN f
                       ELSE [f EXCEPT !.pc = "lock", !.idx = 1, !.key = pairs[1]]]
    /\ UNCHANGED <<max_cache_size, translation_models, loading_status, next_model,
                   pipeline_calls, handed, evicted, use_order>>
    /\ UNCHANGED <<restVars, faults>>

LoaderStep ==
    \/ \E c \in Callers, key \in RequestKeys : GetModel(c, key)
    \/ \E c \in Callers : GetModelFetch(c)
    \/ \E c \in Callers, lang_list \in LangLists : LoadAll(c, lang_list)
    \/ \E c \in Callers : LoadLocked(c)
    \/ \E c \in Callers, ok \in BOOLEAN : LoadPipeline(c, ok)
    \/ \E c \in Callers : CacheLen(c)
    \/ \E c \in Callers : EvictPick(c)
    \/ \E c \in Callers : EvictPop(c)
    \/ \E c \in Callers : CacheInsert(c)
    \/ \E c \in Callers : LoadFinally(c)

\* ------------------------------------------------------------------------
\* VADProcessor
\* ------------------------------------------------------------------------
VADProcessor(sample_rate, frame_duration, voice_threshold_ms, silence_threshold_ms) ==
    [ sample_rate              |-> sample_rate,
      frame_duration           |-> frame_duration,
      voice_threshold_ms       |-> voice_threshold_ms,
      silence_threshold_ms     |-> silence_threshold_ms,
      frame_size               |-> IntDiv(sample_rate * frame_duration, 1000),
      consecutive_voice_frames   |-> 0,
      consecutive_silence_frames |-> 0,
      is_recording             |-> FALSE,
      recording_start_time     |-> None,
      voice_frames_threshold   |-> IntDiv(voice_threshold_ms, frame_duration),
      silence_frames_threshold |-> IntDiv(silence_threshold_ms, frame_duration) ]

\* the value of vad_result before any call has returned
NoResult ==
    [ error |-> FALSE, is_voice |-> FALSE, is_recording |-> FALSE,
      should_start_recording |-> FALSE, should_stop_recording |-> FALSE,
      consecutive_voice_frames |-> 0, consecutive_silence_frames |-> 0,
      timestamp |-> None, recording_duration |-> None ]

ErrorResult == [NoResult EXCEPT !.error = TRUE]

\* variants of the three tests of process_frame, each off by one
FrameShorter(v, frame_len) == frame_len < v.frame_size

StartReachedLate(v, count) == ~v.is_recording /\ count > v.voice_frames_threshold

StartReachedEarly(v, count) == ~v.is_recording /\ count + 1 >= v.voice_frames_threshold

StopReachedLate(v, count) == v.is_recording /\ count > v.silence_frames_threshold

\* variant: the start test without `not self.is_recording`
StartReachedAgain(v, count) == count >= v.voice_frames_threshold

\* variant: the streak of the other kind is left as it is
StreakKept(count) == count

\* len(frame) != self.frame_size
FrameSizeMismatch(v, frame_len) == frame_len # v.frame_size

\* self.consecutive_silence_frames = 0 on a voice frame,
\* self.consecutive_voice_frames = 0 on a silence frame
StreakCleared(count) == 0

\* not self.is_recording and self.consecutive_voice_frames >= self.voice_frames_threshold
StartReached(v, count) == ~v.is_recording /\ count >= v.voice_frames_threshold

\* self.is_recording and self.consecutive_silence_frames >= self.silence_frames_threshold
StopReached(v, count) == v.is_recording /\ count >= v.silence_frames_threshold

\* process_frame(frame): v is the processor, frame_len = len(frame),
\* is_voice the answer of webrtcvad for the frame, t the value of time.time().
\* Yields the processor after the call and the dict returned.
process_frame(v, frame_len, is_voice, t) ==
    IF FrameSizeMismatch(v, frame_len)
    THEN [vad |-> v, result |-> ErrorResult]
    ELSE LET result0 == [ error |-> FALSE,
                          is_voice |-> is_voice,
                          is_recording |-> v.is_recording,
                          should_start_recording |-> FALSE,
                          should_stop_recording |-> FALSE,
                          consecutive_voice_frames |-> v.consecutive_voice_frames,
                          consecutive_silence_frames |-> v.consecutive_silence_frames,
                          timestamp |-> Some(t),
                          recording_duration |-> None ]
         IN IF is_voice
            THEN LET cv == v.consecutive_voice_frames + 1
                     v1 == [v EXCEPT !.consecutive_voice_frames = cv,
                                     !.consecutive_silence_frames = StreakCleared(@)]
                 IN IF StartReached(v1, cv)
                    THEN [vad |-> [v1 EXCEPT !.is_recording = TRUE,
                                             !.recording_start_time = Some(t)],
                          result |-> [result0 EXCEPT !.should_start_recording = TRUE]]
                    ELSE [vad |-> v1, result |-> result0]
            ELSE LET cs == v.consecutive_silence_frames + 1
                     v1 == [v EXCEPT !.consecutive_silence_frames = cs,
                                     !.consecutive_voice_frames = StreakCleared(@)]
                 IN IF StopReached(v1, cs)
                    THEN [vad |-> [v1 EXCEPT !.is_recording = FALSE],
                          result |-> [result0 EXCEPT
                                        !.should_stop_recording = TRUE,
                                        !.recording_duration =
                                            IF v1.recording_start_time # None
                                            THEN Some(t - TheValue(v1.recording_start_time))
                                            ELSE Some(0)]]
                    ELSE [vad |-> v1, result |-> result0]

reset_state(v) ==
    [v EXCEPT !.consecutive_voice_frames = 0,
              !.consecutive_silence_frames = 0,
              !.is_recording = FALSE,
              !.recording_start_time = None]


\* ------------------------------------------------------------------------
\* CircularAudioBuffer.  Samples are named by their position in the order of
\* appending; a deque(maxlen) of them always holds one window [lo, hi).
\* ------------------------------------------------------------------------
Max(a, b) == IF a >= b THEN a ELSE b

Min(a, b) == IF a <= b THEN a ELSE b

CircularAudioBuffer(sample_rate, buffer_duration_ms) ==
    [ sample_rate |-> sample_rate,
      buffer_size |-> IntDiv(sample_rate * buffer_duration_ms, 1000),
      lo |-> 0, hi |-> 0 ]

add_samples(b, n) ==
    LET hi == b.hi + n
    IN [b EXCEPT !.hi = hi, !.lo = Max(b.lo, hi - b.buffer_size)]

\* the window of samples returned: list(buffer)[-num_samples:], all of it when
\* fewer are held (and when num_samples = 0, since [-0:] is the whole list)
get_samples(b, num_samples) ==
    IF b.hi - b.lo < num_samples \/ num_samples = 0
    THEN <<b.lo, b.hi>>
    ELSE <<b.hi - num_samples, b.hi>>

\* variant: the duration taken for a thousandth of what it is
get_duration_samples_short(b, duration_ms) ==
    get_samples(b, Max(1, IntDiv(b.sample_rate * duration_ms, 1000 * 1000)))

get_duration_samples(b, duration_ms) ==
    get_samples(b, IntDiv(b.sample_rate * duration_ms, 1000))

\* ------------------------------------------------------------------------
\* AudioCaptureThread
\* ------------------------------------------------------------------------
InitialStats ==
    [ total_frames |-> 0, voice_frames |-> 0, recordings_created |-> 0,
      queue_timeouts |-> 0, processing_errors |-> 0 ]

Threads == 1..MaxThreads

\* locals of a _stop_recording call: who called, which accumulator, was it dropped
NoFrame == [caller |-> "none", id |-> 0, dropped |-> FALSE]

\* a row of translation_logs: thread_id, the utterance it is about, its errors
LogRow(thread_id, item, errors) == [thread_id |-> thread_id, item |-> item, errors |-> errors]

\* number of samples of an accumulator: pre-roll window plus appended frames
RecordingSamples(rec) == (rec.pre[2] - rec.pre[1]) + Len(rec.frames) * ChunkSize

\* the fields _start_recording, _stop_recording and the callback work on
CaptureState ==
    [ current_recording |-> current_recording,
      recording_start_time |-> recording_start_time,
      stats |-> stats,
      asr_queue |-> asr_queue,
      next_id |-> next_id,
      put_attempts |-> put_attempts,
      stop_calls |-> stop_calls,
      d1_log |-> d1_log ]

SetCaptureState(c) ==
    /\ current_recording' = c.current_recording
    /\ recording_start_time' = c.recording_start_time
    /\ stats' = c.stats
    /\ asr_queue' = c.asr_queue
    /\ next_id' = c.next_id
    /\ put_attempts' = c.put_attempts
    /\ stop_calls' = c.stop_calls
    /\ d1_log' = c.d1_log

\* _start_recording: a new accumulator holding the last PreRollMs of the buffer
start_recording(c, b, t) ==
    [c EXCEPT !.current_recording =
                  Some([id |-> c.next_id + 1,
                        pre |-> get_duration_samples(b, PreRollMs),
                        frames |-> <<>>]),
              !.recording_start_time = Some(t),
              !.next_id = c.next_id + 1]

\* self.current_recording.extend(frame), when an accumulator is open
extend_recording(c, frame_start) ==
    IF c.current_recording # None
    THEN [c EXCEPT !.current_recording =
                     Some([TheValue(@) EXCEPT !.frames = Append(@, frame_start)])]
    ELSE c

\* the finally clause of _stop_recording
stop_recording_finally(c) ==
    [c EXCEPT !.current_recording = None, !.recording_start_time = None]

\* variants of the queue operations: a put that takes one item more than the
\* capacity, and a get that hands out the newest item
QueuePutAcceptsOneMore(q, cap) == Len(q) <= cap

QueueLast(q) == q[Len(q)]

\* asr_queue.put(recording_info, timeout): TRUE when the item is accepted.
\* A queue that is full for the whole timeout raises queue.Full.
QueuePutAccepts(q, cap) == Len(q) < cap

\* _stop_recording up to the call of db_logger (which may wait for the
\* logger's lock): phase "return" when the call is over, "log" when it goes
\* on to log_audio_capture.  wav_ok: _create_wav_bytes returned the bytes.
stop_recording_put(c, wav_ok, cap, has_session) ==
    IF c.current_recording = None
    THEN [c |-> c, phase |-> "return", id |-> 0, dropped |-> FALSE]
    ELSE LET rec == TheValue(c.current_recording)
             c0 == [c EXCEPT !.stop_calls = Append(@, rec.id)]
             info == [ id |-> rec.id,
                       samples |-> RecordingSamples(rec),
                       timestamp |-> c.recording_start_time,
                       pre |-> rec.pre,
                       frames |-> rec.frames ]
             c1 == [c0 EXCEPT !.put_attempts = Append(@, rec.id)]
             sent == [c1 EXCEPT !.asr_queue = Append(@, info),
                                !.stats.recordings_created = @ + 1,
                                !.d1_log = Append(@, rec.id)]
             full == [c1 EXCEPT !.stats.queue_timeouts = @ + 1]
             after == IF QueuePutAccepts(c.asr_queue, cap) THEN sent ELSE full
             dropped == ~QueuePutAccepts(c.asr_queue, cap)
         IN IF ~wav_ok
            THEN [c |-> stop_recording_finally(c0), phase |-> "return",
                  id |-> rec.id, dropped |-> FALSE]
            ELSE IF has_session
                 THEN [c |-> after, phase |-> "log", id |-> rec.id, dropped |-> dropped]
                 ELSE [c |-> stop_recording_finally(after), phase |-> "return",
                       id |-> rec.id, dropped |-> dropped]


\* ------------------------------------------------------------------------
\* ASRTranslationSynthesisThread
\* ------------------------------------------------------------------------
AsrOutcomes == {"text", "empty", "raise"}

MtOutcomes == {"ok", "empty", "raise"}

TtsOutcomes == {"ok", "raise_tts", "raise_decode"}

\* queue_in.get(timeout=1) hands out the oldest item
QueueHead(q) == Head(q)

\* variants of the worker's tests: a text that is never taken as empty, a
\* fallback that yields no text, a synthesis result that is always handed on
NotTextNever(text) == FALSE

FallbackTextNone(original_text) == ""

ChunkReadyAlways(tts) == TRUE

\* `not original_text` / `not translated_text`
NotText(text) == text = ""

\* translated_text = original_text in the except clause of the translation
FallbackText(original_text) == original_text

\* queue_out.put(audio_fp) is reached when nothing between gTTS(...) and the
\* normalisation has raised
ChunkReady(tts) == tts = "ok"

\* the job after the ASR, translation and synthesis phases of one utterance:
\* what is left to do (next: "put", "log" or "continue"), the error list,
\* which engines were called and whether audio_segment still names the
\* dequeued dict when metadata is built
process_segment(item, asr, mt, tts, do_translate) ==
    LET asr_errors == IF asr = "raise" THEN {"Whisper transcription error"} ELSE {}
        original_text == IF asr = "text" THEN "text" ELSE ""
        mt_errors == IF do_translate /\ mt = "raise" THEN {"Translation error"} ELSE {}
        translated_text == IF do_translate /\ mt = "ok" THEN "translated"
                           ELSE IF do_translate /\ mt = "empty" THEN ""
                           ELSE IF do_translate THEN FallbackText(original_text)
                           ELSE original_text
        base == [ item |-> item.id, original_text |-> original_text,
                  translated_text |-> "", errors |-> asr_errors,
                  mt_called |-> FALSE, tts_called |-> FALSE,
                  segment_is_dict |-> TRUE, next |-> "log" ]
    IN IF NotText(original_text)
       THEN [base EXCEPT !.errors = asr_errors \cup {"Empty transcription"}]
       ELSE IF NotText(translated_text)
       THEN [base EXCEPT !.errors = asr_errors \cup mt_errors \cup {"Empty translation"},
                         !.mt_called = do_translate]
       ELSE IF ChunkReady(tts)
       THEN [base EXCEPT !.translated_text = translated_text,
                         !.errors = asr_errors \cup mt_errors,
                         !.mt_called = do_translate,
                         !.tts_called = TRUE,
                         !.segment_is_dict = FALSE,
                         !.next = "put"]
       ELSE [base EXCEPT !.translated_text = translated_text,
                         !.errors = asr_errors \cup mt_errors \cup {"TTS synthesis error"},
                         !.mt_called = do_translate,
                         !.tts_called = TRUE,
                         !.segment_is_dict = (tts = "raise_tts")]

\* the final log_asr_translation call builds its metadata with
\* audio_segment.get(...): an AttributeError once audio_segment names the
\* pydub segment, caught by the loop's except clause
FinalLogReached(job) == job.segment_is_dict

\* run(): _load_models(); a failing load ends run()
WorkerLoadModels(load_ok) ==
    /\ w_pc = "loading"
    /\ w_pc' = IF load_ok THEN "loop" ELSE "dead"
    /\ UNCHANGED <<vadVars, capVars, queueVars, w_job, w_stop_event, translate,
                   playVars, dbVars, histVars>>
    /\ UNCHANGED <<loaderVars, partVars>>
    /\ Failing(~load_ok)

\* the loop test finds stop_event set
WorkerExit ==
    /\ w_pc = "loop"
    /\ w_stop_event
    /\ w_pc' = "exited"
    /\ UNCHANGED <<vadVars, capVars, queueVars, w_job, w_stop_event, translate,
                   playVars, dbVars, histVars>>
    /\ UNCHANGED <<faults, loaderVars, partVars>>

\* the loop test finds stop_event clear: the body is entered and
\* queue_in.get(timeout=1) is called
WorkerLoopTest ==
    /\ w_pc = "loop"
    /\ ~w_stop_event
    /\ w_pc' = "get"
    /\ UNCHANGED <<vadVars, capVars, queueVars, w_job, w_stop_event, translate,
                   playVars, dbVars, histVars>>
    /\ UNCHANGED <<faults, loaderVars, partVars>>

\* queue_in.get(timeout=1) raises queue.Empty after a second without an
\* item: continue
WorkerGetEmpty ==
    /\ w_pc = "get"
    /\ asr_queue = <<>>
    /\ w_pc' = "loop"
    /\ UNCHANGED <<vadVars, capVars, queueVars, w_job, w_stop_event, translate,
                   playVars, dbVars, histVars>>
    /\ UNCHANGED <<faults, loaderVars, partVars>>

\* queue_in.get(timeout=1) returns an item; the loop body runs to the point
\* where it blocks: queue_out.put, or the logger's lock
WorkerGet(asr, mt, tts) ==
    /\ w_pc = "get"
    /\ asr_queue # <<>>
    /\ asr_queue' = Tail(asr_queue)
    /\ LET job == process_segment(QueueHead(asr_queue), asr, mt, tts, translate)
       IN IF job.next = "put"
          THEN w_pc' = "put" /\ w_job' = Some(job)
          ELSE IF session_id # None /\ (job.translated_text = "" \/ FinalLogReached(job))
          THEN w_pc' = "log_lock" /\ w_job' = Some(job)
          ELSE w_pc' = "loop" /\ w_job' = None
    /\ UNCHANGED <<vadVars, capVars, maxsize, output_queue, w_stop_event, translate,
                   playVars, dbVars, histVars>>
    /\ UNCHANGED <<loaderVars, partVars>>
    /\ Failing(process_segment(QueueHead(asr_queue), asr, mt, tts, translate)
               # process_segment(QueueHead(asr_queue), "text", "ok", "ok", translate))

\* self.queue_out.put(audio_fp): waits while the queue is full
WorkerPut ==
    /\ w_pc = "put"
    /\ QueuePutAccepts(output_queue, maxsize)
    /\ LET job == TheValue(w_job)
       IN /\ output_queue' = Append(output_queue, [src |-> job.item])
          /\ d2_log' = Append(d2_log, job.item)
          /\ IF session_id # None /\ FinalLogReached(job)
             THEN w_pc' = "log_lock" /\ UNCHANGED w_job
             ELSE w_pc' = "loop" /\ w_job' = None
    /\ UNCHANGED <<vadVars, capVars, maxsize, asr_queue, w_stop_event, translate,
                   playVars, dbVars, next_id, put_attempts, stop_calls, d1_log,
                   voice_run, had_voice_run>>
    /\ UNCHANGED <<faults, loaderVars, partVars>>

\* log_asr_translation -> _log_thread_activity: with self.lock
WorkerLogLock ==
    /\ w_pc = "log_lock"
    /\ db_lock = "free"
    /\ db_lock' = "worker"
    /\ w_pc' = "log_insert"
    /\ UNCHANGED <<vadVars, capVars, queueVars, w_job, w_stop_event, translate,
                   playVars, db_rows, histVars>>
    /\ UNCHANGED <<faults, loaderVars, partVars>>

\* the INSERT is done or raises (caught by the loop's except clause)
WorkerLogged(ok) ==
    /\ w_pc = "log_insert"
    /\ db_lock' = "free"
    /\ db_rows' = IF ok
                  THEN db_rows \cup {LogRow(2, TheValue(w_job).item, TheValue(w_job).errors)}
                  ELSE db_rows
    /\ w_pc' = "loop"
    /\ w_job' = None
    /\ UNCHANGED <<vadVars, capVars, queueVars, w_stop_event, translate, playVars, histVars>>
    /\ UNCHANGED <<loaderVars, partVars>>
    /\ Failing(~ok)

\* run(): sd.OutputStream(...) is opened; a failure ends run()
PlaybackOpenStream(open_ok) ==
    /\ p_pc = "opening"
    /\ p_pc' = IF open_ok THEN "loop" ELSE "exited"
    /\ UNCHANGED <<vadVars, capVars, queueVars, workerVars, p_chunk, p_stop_event,
                   dbVars, histVars>>
    /\ UNCHANGED <<loaderVars, partVars>>
    /\ Failing(~open_ok)

\* the loop test finds stop_event set
PlaybackExit ==
    /\ p_pc = "loop"
    /\ p_stop_event
    /\ p_pc' = "exited"
    /\ UNCHANGED <<vadVars, capVars, queueVars, workerVars, p_chunk, p_stop_event,
                   dbVars, histVars>>
    /\ UNCHANGED <<faults, loaderVars, partVars>>

\* input_queue.get(timeout=0.1) hands out a chunk, which is written to the
\* stream (an error while writing is caught and listed)
PlaybackGet(write_ok) ==
    /\ p_pc = "loop"
    /\ ~p_stop_event
    /\ output_queue # <<>>
    /\ output_queue' = Tail(output_queue)
    /\ IF session_id # None
       THEN /\ p_pc' = "log_lock"
            /\ p_chunk' = Some([src |-> QueueHead(output_queue).src,
                                errors |-> IF write_ok THEN {} ELSE {"Audio playback error"}])
       ELSE /\ p_pc' = "loop"
            /\ p_chunk' = None
    /\ UNCHANGED <<vadVars, capVars, maxsize, asr_queue, workerVars, p_stop_event,
                   dbVars, histVars>>
    /\ UNCHANGED <<loaderVars, partVars>>
    /\ Failing(~write_ok)

\* log_audio_playback -> _log_thread_activity: with self.lock
PlaybackLogLock ==
    /\ p_pc = "log_lock"
    /\ db_lock = "free"
    /\ db_lock' = "playback"
    /\ p_pc' = "log_insert"
    /\ UNCHANGED <<vadVars, capVars, queueVars, workerVars, p_chunk, p_stop_event,
                   db_rows, histVars>>
    /\ UNCHANGED <<faults, loaderVars, partVars>>

\* the INSERT is done, or raises: the exception leaves the loop and ends run()
PlaybackLogged(ok) ==
    /\ p_pc = "log_insert"
    /\ db_lock' = "free"
    /\ db_rows' = IF ok
                  THEN db_rows \cup {LogRow(3, TheValue(p_chunk).src, TheValue(p_chunk).errors)}
                  ELSE db_rows
    /\ p_pc' = IF ok THEN "loop" ELSE "exited"
    /\ p_chunk' = None
    /\ UNCHANGED <<vadVars, capVars, queueVars, workerVars, p_stop_event, histVars>>
    /\ UNCHANGED <<loaderVars, partVars>>
    /\ Failing(~ok)

\* nothing downstream of D1 has been started
DownstreamIdle ==
    /\ output_queue = <<>>
    /\ w_pc = "unstarted"
    /\ w_job = None
    /\ w_stop_event = FALSE
    /\ translate = FALSE
    /\ p_pc = "unstarted"
    /\ p_chunk = None
    /\ p_stop_event = FALSE
    /\ db_rows = {}
    /\ d2_log = <<>>

\* the state in which nothing of the pipeline has been started
IdleRest ==
    /\ buffer = CircularAudioBuffer(SampleRate, BufferDurationMs)
    /\ current_recording = None
    /\ recording_start_time = None
    /\ stats = InitialStats
    /\ session_id = None
    /\ is_running = FALSE
    /\ stop_event = FALSE
    /\ thread = 0
    /\ thread_pc = [g \in Threads |-> "unborn"]
    /\ sr_frame = [g \in Threads |-> NoFrame]
    /\ host_pc = "idle"
    /\ limit = [blocks |-> 0, threads |-> 0, faults |-> 0]
    /\ faults = 0
    /\ LoaderIdle
    /\ maxsize = 1
    /\ asr_queue = <<>>
    /\ DownstreamIdle
    /\ db_lock = "free"
    /\ next_id = 0
    /\ put_attempts = <<>>
    /\ stop_calls = <<>>
    /\ d1_log = <<>>
    /\ voice_run = 0
    /\ had_voice_run = FALSE

\* AudioCaptureThread.start()
start ==
    /\ host_pc = "idle"
    /\ ~is_running
    /\ thread < limit.threads
    /\ is_running' = TRUE
    /\ stop_event' = FALSE
    /\ thread' = thread + 1
    /\ thread_pc' = [thread_pc EXCEPT ![thread + 1] = "start"]
    /\ UNCHANGED <<vadVars, buffer, current_recording, recording_start_time, stats,
                   session_id, sr_frame, host_pc, limit, maxsize, asr_queue, db_lock,
                   next_id, put_attempts, stop_calls, d1_log, voice_run, had_voice_run,
                   faults, loaderVars, partVars>>

\* AudioCaptureThread.stop(), up to thread.join(timeout=2.0)
stop ==
    /\ host_pc = "idle"
    /\ is_running
    /\ is_running' = FALSE
    /\ stop_event' = TRUE
    /\ host_pc' = IF thread # 0 /\ thread_pc[thread] # "done" THEN "joining" ELSE "idle"
    /\ UNCHANGED <<vadVars, buffer, current_recording, recording_start_time, stats,
                   session_id, thread, thread_pc, sr_frame, limit, maxsize, asr_queue,
                   db_lock, next_id, put_attempts, stop_calls, d1_log, voice_run,
                   had_voice_run, faults, loaderVars, partVars>>

\* thread.join(timeout=2.0) returns: the thread has ended (timed_out FALSE),
\* or the 2.0 s have passed while it has not
join(timed_out) ==
    /\ host_pc = "joining"
    /\ timed_out = (thread_pc[thread] # "done")
    /\ host_pc' = "idle"
    /\ UNCHANGED <<vadVars, buffer, current_recording, recording_start_time, stats,
                   session_id, is_running, stop_event, thread, thread_pc, sr_frame,
                   limit, maxsize, asr_queue, db_lock, next_id, put_attempts, stop_calls,
                   d1_log, voice_run, had_voice_run, faults, loaderVars, partVars>>

\* a capture stage driven on its own (debug_whisper.py, test_queue_flow.py)
Start == start /\ UNCHANGED downVars

Stop == stop /\ UNCHANGED downVars

JoinReturn == join(FALSE) /\ UNCHANGED downVars

JoinTimeout == join(TRUE) /\ UNCHANGED downVars

\* the stop() calls that follow capture_thread.stop() in the host:
\* processing_thread.stop() and output_thread.stop() set the stop events
StopDownstream(done) ==
    /\ w_stop_event' = (w_stop_event \/ done)
    /\ p_stop_event' = (p_stop_event \/ done)
    /\ UNCHANGED <<output_queue, w_pc, w_job, translate, p_pc, p_chunk, db_rows, d2_log>>

\* the host starts the three stages: capture, worker, playback
TranslatorStart ==
    /\ start
    /\ w_pc = "unstarted"
    /\ w_pc' = "loading"
    /\ p_pc' = "opening"
    /\ UNCHANGED <<output_queue, w_job, w_stop_event, translate, p_chunk, p_stop_event,
                   db_rows, d2_log>>

\* the host stops the three stages in the same order; the worker and the
\* playback stage are told to stop once capture_thread.stop() has returned
TranslatorStop == stop /\ StopDownstream(host_pc' = "idle")

TranslatorJoinReturn == join(FALSE) /\ StopDownstream(TRUE)

TranslatorJoinTimeout == join(TRUE) /\ StopDownstream(TRUE)

\* the finally clause of _run: flush an open accumulator through _stop_recording
RunFinally(g, c, wav_ok) ==
    LET s == stop_recording_put(c, wav_ok, maxsize, session_id # None)
    IN /\ SetCaptureState(s.c)
       /\ IF s.phase = "log"
          THEN /\ thread_pc' = [thread_pc EXCEPT ![g] = "sr_lock"]
               /\ sr_frame' = [sr_frame EXCEPT ![g] =
                                  [caller |-> "run", id |-> s.id, dropped |-> s.dropped]]
          ELSE /\ thread_pc' = [thread_pc EXCEPT ![g] = "done"]
               /\ UNCHANGED sr_frame

\* _run: sd.InputStream(...) is opened
RunOpenStream(g) ==
    /\ thread_pc[g] = "start"
    /\ thread_pc' = [thread_pc EXCEPT ![g] = "stream"]
    /\ UNCHANGED <<vadVars, buffer, current_recording, recording_start_time, stats,
                   session_id, is_running, stop_event, thread, sr_frame, host_pc,
                   limit, queueVars, workerVars, playVars, dbVars, histVars>>
    /\ UNCHANGED <<faults, loaderVars, partVars>>

\* _run: opening the stream raises; except clause, then finally
RunOpenFails(g, wav_ok) ==
    /\ thread_pc[g] = "start"
    /\ RunFinally(g, [CaptureState EXCEPT !.stats.processing_errors = @ + 1], wav_ok)
    /\ UNCHANGED <<vadVars, buffer, session_id, is_running, stop_event, thread,
                   host_pc, limit, maxsize, db_lock, voice_run, had_voice_run, downVars>>
    /\ UNCHANGED <<loaderVars, partVars>>
    /\ Failing(TRUE)

\* _run: the loop sees stop_event, the stream is closed, then finally
RunStopStream(g, wav_ok) ==
    /\ thread_pc[g] = "stream"
    /\ stop_event
    /\ RunFinally(g, CaptureState, wav_ok)
    /\ UNCHANGED <<vadVars, buffer, session_id, is_running, stop_event, thread,
                   host_pc, limit, maxsize, db_lock, voice_run, had_voice_run, downVars>>
    /\ UNCHANGED <<loaderVars, partVars>>
    /\ Failing(current_recording # None /\ ~wav_ok)

\* _audio_callback for one device block.  chunk_size equals the frame size of
\* the VADProcessor, so the frame loop runs once, on the whole block.
AudioCallback(g, is_voice, wav_ok) ==
    /\ thread_pc[g] = "stream"
    /\ n_calls < limit.blocks
    /\ LET frame_start == buffer.hi
           buf1 == add_samples(buffer, ChunkSize)
           frame_len == Max(Min(ChunkSize, vad.frame_size), vad.frame_size)
           r == process_frame(vad, frame_len, is_voice, now)
           c0 == [CaptureState EXCEPT
                    !.stats.total_frames = @ + 1,
                    !.stats.voice_frames = IF is_voice THEN @ + 1 ELSE @]
           run == IF is_voice THEN voice_run + 1 ELSE 0
       IN /\ buffer' = buf1
          /\ vad' = r.vad
          /\ vad_result' = r.result
          /\ now' = now + vad.frame_duration
          /\ n_calls' = n_calls + 1
          /\ frame_len_in' = frame_len
          /\ voice_run' = run
          /\ had_voice_run' = (had_voice_run \/
                                (is_voice /\ run >= Max(1, vad.voice_frames_threshold)))
          /\ IF r.result.error
             THEN /\ SetCaptureState(CaptureState)
                  /\ UNCHANGED <<thread_pc, sr_frame>>
             ELSE IF r.result.should_start_recording
             THEN /\ SetCaptureState(extend_recording(start_recording(c0, buf1, now),
                                                      frame_start))
                  /\ UNCHANGED <<thread_pc, sr_frame>>
             ELSE IF r.result.should_stop_recording
             THEN LET s == stop_recording_put(c0, wav_ok, maxsize, session_id # None)
                  IN IF s.phase = "log"
                     THEN /\ SetCaptureState(s.c)
                          /\ thread_pc' = [thread_pc EXCEPT ![g] = "sr_lock"]
                          /\ sr_frame' = [sr_frame EXCEPT ![g] =
                                  [caller |-> "callback", id |-> s.id, dropped |-> s.dropped]]
                     ELSE /\ SetCaptureState(extend_recording(s.c, frame_start))
                          /\ UNCHANGED <<thread_pc, sr_frame>>
             ELSE /\ SetCaptureState(extend_recording(c0, frame_start))
                  /\ UNCHANGED <<thread_pc, sr_frame>>
    /\ UNCHANGED <<session_id, is_running, stop_event, thread, host_pc, limit, maxsize,
                   db_lock, downVars>>
    /\ UNCHANGED <<loaderVars, partVars>>
    /\ Failing(current_recording # None /\ ~wav_ok
               /\ process_frame(vad, vad.frame_size, is_voice, now).result.should_stop_recording)

\* _stop_recording -> log_audio_capture -> _log_thread_activity: with self.lock
StopRecordingLock(g) ==
    /\ thread_pc[g] = "sr_lock"
    /\ db_lock = "free"
    /\ db_lock' = "capture"
    /\ thread_pc' = [thread_pc EXCEPT ![g] = "sr_insert"]
    /\ UNCHANGED <<vadVars, buffer, current_recording, recording_start_time, stats,
                   session_id, is_running, stop_event, thread, sr_frame, host_pc,
                   limit, queueVars, workerVars, playVars, db_rows, histVars>>
    /\ UNCHANGED <<faults, loaderVars, partVars>>

\* the INSERT is done (ok) or raises; the lock is released; an exception is
\* caught by _stop_recording's except clause; then its finally clause runs and
\* the caller (callback or _run) goes on
StopRecordingLogged(g, ok) ==
    /\ thread_pc[g] = "sr_insert"
    /\ db_lock' = "free"
    /\ db_rows' = IF ok
                  THEN db_rows \cup {LogRow(1, sr_frame[g].id,
                                              IF sr_frame[g].dropped THEN {"queue full"} ELSE {})}
                  ELSE db_rows
    /\ LET c0 == IF ok THEN CaptureState
                 ELSE [CaptureState EXCEPT !.stats.processing_errors = @ + 1]
       IN SetCaptureState(stop_recording_finally(c0))
    /\ thread_pc' = [thread_pc EXCEPT ![g] =
                        IF sr_frame[g].caller = "run" THEN "done" ELSE "stream"]
    /\ sr_frame' = [sr_frame EXCEPT ![g] = NoFrame]
    /\ UNCHANGED <<vadVars, buffer, session_id, is_running, stop_event, thread,
                   host_pc, limit, maxsize, voice_run, had_voice_run,
                   output_queue, workerVars, playVars, d2_log>>
    /\ UNCHANGED <<loaderVars, partVars>>
    /\ Failing(~ok)

\* ------------------------------------------------------------------------
\* A VADProcessor driven directly by a caller (examples, tests)
\* ------------------------------------------------------------------------
ThresholdChoices(fd) ==
    {k * fd : k \in 1..MaxThresholdFrames} \cup {k * fd + (fd \div 2) : k \in 0..1}

InitVAD ==
    /\ \E fd \in FrameDurations :
         \E vt \in ThresholdChoices(fd), st \in ThresholdChoices(fd) :
            vad = VADProcessor(SampleRate, fd, vt, st)
    /\ vad_result = NoResult
    /\ now = 1000
    /\ n_calls = 0
    /\ frame_len_in = 0
    /\ IdleRest
    /\ PartsIdle

\* one call of process_frame; the clock advances by one frame duration
VADProcessFrame(frame_len, is_voice) ==
    /\ n_calls < MaxCalls
    /\ LET r == process_frame(vad, frame_len, is_voice, now)
       IN /\ vad' = r.vad
          /\ vad_result' = r.result
    /\ now' = now + vad.frame_duration
    /\ n_calls' = n_calls + 1
    /\ frame_len_in' = frame_len
    /\ UNCHANGED <<capVars, queueVars, workerVars, playVars, dbVars, histVars>>
    /\ UNCHANGED <<faults, loaderVars, partVars>>

VADResetState ==
    /\ vad # reset_state(vad)
    /\ vad' = reset_state(vad)
    /\ UNCHANGED <<vad_result, now, n_calls, frame_len_in, capVars, queueVars, workerVars, playVars, dbVars, histVars>>
    /\ UNCHANGED <<faults, loaderVars, partVars>>

NextVAD ==
    \/ \E is_voice \in BOOLEAN : VADProcessFrame(vad.frame_size, is_voice)
    \/ \E d \in {-1, 1}, is_voice \in BOOLEAN : VADProcessFrame(vad.frame_size + d, is_voice)
    \/ VADResetState

SpecVAD == InitVAD /\ [][NextVAD]_vars

\* ------------------------------------------------------------------------
\* The pipeline
\* ------------------------------------------------------------------------
Init ==
    /\ vad = VADProcessor(SampleRate, CaptureFrameDuration, PipeVoiceMs, PipeSilenceMs)
    /\ vad_result = NoResult
    /\ now = 1000
    /\ n_calls = 0
    /\ frame_len_in = 0
    /\ buffer = CircularAudioBuffer(SampleRate, BufferDurationMs)
    /\ current_recording = None
    /\ recording_start_time = None
    /\ stats = InitialStats
    /\ session_id \in {None, Some("session")}
    /\ is_running = FALSE
    /\ stop_event = FALSE
    /\ thread = 0
    /\ thread_pc = [g \in Threads |-> "unborn"]
    /\ sr_frame = [g \in Threads |-> NoFrame]
    /\ host_pc = "idle"
    /\ limit = [blocks |-> MaxPipeBlocks, threads |-> 1, faults |-> MaxFaults]
    /\ faults = 0
    /\ LoaderIdle
    /\ PartsIdle
    /\ maxsize \in {1, MaxQueue}
    /\ asr_queue = <<>>
    /\ output_queue = <<>>
    /\ w_pc = "unstarted"
    /\ w_job = None
    /\ w_stop_event = FALSE
    /\ translate = TRUE
    /\ p_pc = "unstarted"
    /\ p_chunk = None
    /\ p_stop_event = FALSE
    /\ db_lock = "free"
    /\ db_rows = {}
    /\ d2_log = <<>>
    /\ next_id = 0
    /\ put_attempts = <<>>
    /\ stop_calls = <<>>
    /\ d1_log = <<>>
    /\ voice_run = 0
    /\ had_voice_run = FALSE

\* the steps of the _run threads and of the callbacks of their streams
CaptureThreadStep ==
    \/ \E g \in Threads : RunOpenStream(g)
    \/ \E g \in Threads, wav_ok \in BOOLEAN : RunOpenFails(g, wav_ok)
    \/ \E g \in Threads, wav_ok \in BOOLEAN : RunStopStream(g, wav_ok)
    \/ \E g \in Threads, is_voice \in BOOLEAN, wav_ok \in BOOLEAN :
          AudioCallback(g, is_voice, wav_ok)
    \/ \E g \in Threads : StopRecordingLock(g)
    \/ \E g \in Threads, ok \in BOOLEAN : StopRecordingLogged(g, ok)

\* a capture stage driven on its own
CaptureStep ==
    \/ Start
    \/ Stop
    \/ JoinReturn
    \/ JoinTimeout
    \/ CaptureThreadStep

\* the host of the pipeline (RealTimeTranslator.start / stop)
TranslatorStep ==
    \/ TranslatorStart
    \/ TranslatorStop
    \/ TranslatorJoinReturn
    \/ TranslatorJoinTimeout

WorkerStep ==
    \/ \E load_ok \in BOOLEAN : WorkerLoadModels(load_ok)
    \/ WorkerExit
    \/ WorkerLoopTest
    \/ WorkerGetEmpty
    \/ \E asr \in AsrOutcomes, mt \in MtOutcomes, tts \in TtsOutcomes : WorkerGet(asr, mt, tts)
    \/ WorkerPut
    \/ WorkerLogLock
    \/ \E ok \in BOOLEAN : WorkerLogged(ok)

PlaybackStep ==
    \/ \E open_ok \in BOOLEAN : PlaybackOpenStream(open_ok)
    \/ PlaybackExit
    \/ \E write_ok \in BOOLEAN : PlaybackGet(write_ok)
    \/ PlaybackLogLock
    \/ \E ok \in BOOLEAN : PlaybackLogged(ok)

Next == TranslatorStep \/ CaptureThreadStep \/ WorkerStep \/ PlaybackStep

Spec == Init /\ [][Next]_vars

\* ------------------------------------------------------------------------
\* The capture stage alone: nothing consumes D1 (the worker is not running)
\* ------------------------------------------------------------------------
\* voice and silence thresholds tried, in ms: one frame and two frames
CaptureThresholds == {CaptureFrameDuration, 2 * CaptureFrameDuration}

InitCapture ==
    /\ \E vt \in CaptureThresholds, st \in CaptureThresholds :
          vad = VADProcessor(SampleRate, CaptureFrameDuration, vt, st)
    /\ vad_result = NoResult
    /\ now = 1000
    /\ n_calls = 0
    /\ frame_len_in = 0
    /\ buffer = CircularAudioBuffer(SampleRate, BufferDurationMs)
    /\ current_recording = None
    /\ recording_start_time = None
    /\ stats = InitialStats
    /\ session_id \in {None, Some("session")}
    /\ is_running = FALSE
    /\ stop_event = FALSE
    /\ thread = 0
    /\ thread_pc = [g \in Threads |-> "unborn"]
    /\ sr_frame = [g \in Threads |-> NoFrame]
    /\ host_pc = "idle"
    /\ limit = [blocks |-> MaxBlocks, threads |-> 1, faults |-> MaxBlocks]
    /\ faults = 0
    /\ LoaderIdle
    /\ PartsIdle
    /\ maxsize \in 1..MaxQueue
    /\ asr_queue = <<>>
    /\ DownstreamIdle
    /\ db_lock = "free"
    /\ next_id = 0
    /\ put_attempts = <<>>
    /\ stop_calls = <<>>
    /\ d1_log = <<>>
    /\ voice_run = 0
    /\ had_voice_run = FALSE

SpecCapture == InitCapture /\ [][CaptureStep]_vars

\* ------------------------------------------------------------------------
\* The capture stage alone, stopped and started again
\* ------------------------------------------------------------------------
InitRestart ==
    /\ \E vt \in CaptureThresholds, st \in CaptureThresholds :
          vad = VADProcessor(SampleRate, CaptureFrameDuration, vt, st)
    /\ vad_result = NoResult
    /\ now = 1000
    /\ n_calls = 0
    /\ frame_len_in = 0
    /\ buffer = CircularAudioBuffer(SampleRate, BufferDurationMs)
    /\ current_recording = None
    /\ recording_start_time = None
    /\ stats = InitialStats
    /\ session_id \in {None, Some("session")}
    /\ is_running = FALSE
    /\ stop_event = FALSE
    /\ thread = 0
    /\ thread_pc = [g \in Threads |-> "unborn"]
    /\ sr_frame = [g \in Threads |-> NoFrame]
    /\ host_pc = "idle"
    /\ limit = [blocks |-> MaxRestartBlocks, threads |-> MaxThreads, faults |-> MaxRestartBlocks]
    /\ faults = 0
    /\ LoaderIdle
    /\ PartsIdle
    /\ maxsize \in 1..MaxQueue
    /\ asr_queue = <<>>
    /\ DownstreamIdle
    /\ db_lock = "free"
    /\ next_id = 0
    /\ put_attempts = <<>>
    /\ stop_calls = <<>>
    /\ d1_log = <<>>
    /\ voice_run = 0
    /\ had_voice_run = FALSE

SpecRestart == InitRestart /\ [][CaptureStep]_vars

\* ------------------------------------------------------------------------
\* The capture stage with its defaults, fed a scripted waveform through its
\* input stream and then stopped: 1.0 s speech, 0.5 s silence, 1.0 s speech
\* ------------------------------------------------------------------------
ScenarioInput ==
    << [voice |-> TRUE, ms |-> 1000],
       [voice |-> FALSE, ms |-> 500],
       [voice |-> TRUE, ms |-> 1000] >>

RECURSIVE SegmentEnd(_)
\* the sample at which segment i of the waveform ends
SegmentEnd(i) ==
    IF i = 0 THEN 0
    ELSE SegmentEnd(i - 1) + IntDiv(SampleRate * ScenarioInput[i].ms, 1000)

\* is the sample speech
VoiceAt(x) ==
    LET i == CHOOSE k \in DOMAIN ScenarioInput : SegmentEnd(k - 1) <= x /\ x < SegmentEnd(k)
    IN ScenarioInput[i].voice

\* the stream delivers whole blocks of chunk_size samples
ScenarioBlocks == IntDiv(SegmentEnd(Len(ScenarioInput)), ChunkSize)

\* what a perfect classifier may answer for block k (counted from 0): the
\* kind of its samples; either answer when it holds speech and silence
BlockVoices(k) == {VoiceAt(k * ChunkSize), VoiceAt((k + 1) * ChunkSize - 1)}

InitScenario ==
    /\ vad = VADProcessor(SampleRate, CaptureFrameDuration,
                          DefaultVoiceThresholdMs, DefaultSilenceThresholdMs)
    /\ vad_result = NoResult
    /\ now = 1000
    /\ n_calls = 0
    /\ frame_len_in = 0
    /\ buffer = CircularAudioBuffer(SampleRate, BufferDurationMs)
    /\ current_recording = None
    /\ recording_start_time = None
    /\ stats = InitialStats
    /\ session_id \in {None, Some("session")}
    /\ is_running = FALSE
    /\ stop_event = FALSE
    /\ thread = 0
    /\ thread_pc = [g \in Threads |-> "unborn"]
    /\ sr_frame = [g \in Threads |-> NoFrame]
    /\ host_pc = "idle"
    /\ limit = [blocks |-> ScenarioBlocks, threads |-> 1, faults |-> 0]
    /\ faults = 0
    /\ LoaderIdle
    /\ PartsIdle
    /\ maxsize = QueueMaxsize
    /\ asr_queue = <<>>
    /\ DownstreamIdle
    /\ db_lock = "free"
    /\ next_id = 0
    /\ put_attempts = <<>>
    /\ stop_calls = <<>>
    /\ d1_log = <<>>
    /\ voice_run = 0
    /\ had_voice_run = FALSE

\* the callback for the next block of the waveform
ScenarioCallback(g) ==
    /\ n_calls < ScenarioBlocks
    /\ \E is_voice \in BlockVoices(n_calls) : AudioCallback(g, is_voice, TRUE)

\* stop() once the whole waveform has been delivered
ScenarioStop == n_calls = ScenarioBlocks /\ Stop

NextScenario ==
    \/ Start
    \/ \E g \in Threads : RunOpenStream(g)
    \/ \E g \in Threads : ScenarioCallback(g)
    \/ ScenarioStop
    \/ \E g \in Threads : RunStopStream(g, TRUE)
    \/ JoinReturn
    \/ JoinTimeout
    \/ \E g \in Threads : StopRecordingLock(g)
    \/ \E g \in Threads : StopRecordingLogged(g, TRUE)

SpecScenario == InitScenario /\ [][NextScenario]_vars

\* ------------------------------------------------------------------------
\* The pipeline on a short input, to follow the passes of the worker's loop
\* ------------------------------------------------------------------------
InitWorker ==
    /\ vad = VADProcessor(SampleRate, CaptureFrameDuration, PipeVoiceMs, PipeSilenceMs)
    /\ vad_result = NoResult
    /\ now = 1000
    /\ n_calls = 0
    /\ frame_len_in = 0
    /\ buffer = CircularAudioBuffer(SampleRate, BufferDurationMs)
    /\ current_recording = None
    /\ recording_start_time = None
    /\ stats = InitialStats
    /\ session_id \in {None, Some("session")}
    /\ is_running = FALSE
    /\ stop_event = FALSE
    /\ thread = 0
    /\ thread_pc = [g \in Threads |-> "unborn"]
    /\ sr_frame = [g \in Threads |-> NoFrame]
    /\ host_pc = "idle"
    /\ limit = [blocks |-> MaxWorkerBlocks, threads |-> 1, faults |-> MaxFaults]
    /\ faults = 0
    /\ LoaderIdle
    /\ PartsIdle
    /\ maxsize = MaxQueue
    /\ asr_queue = <<>>
    /\ output_queue = <<>>
    /\ w_pc = "unstarted"
    /\ w_job = None
    /\ w_stop_event = FALSE
    /\ translate \in BOOLEAN
    /\ p_pc = "unstarted"
    /\ p_chunk = None
    /\ p_stop_event = FALSE
    /\ db_rows = {}
    /\ d2_log = <<>>
    /\ db_lock = "free"
    /\ next_id = 0
    /\ put_attempts = <<>>
    /\ stop_calls = <<>>
    /\ d1_log = <<>>
    /\ voice_run = 0
    /\ had_voice_run = FALSE

SpecWorker == InitWorker /\ [][Next]_vars

\* ------------------------------------------------------------------------
\* The pipeline with its threads scheduled fairly: a thread that can take a
\* step (its call returns, its wait ends) takes one
\* ------------------------------------------------------------------------
ThreadsScheduled ==
    /\ WF_vars(CaptureThreadStep)
    /\ WF_vars(WorkerStep)
    /\ WF_vars(PlaybackStep)

SpecLive == Init /\ [][Next]_vars /\ ThreadsScheduled

\* ------------------------------------------------------------------------
\* A LazyModelLoader called from several threads; the pipeline is not started
\* ------------------------------------------------------------------------
InitLoader ==
    /\ vad = VADProcessor(SampleRate, CaptureFrameDuration, PipeVoiceMs, PipeSilenceMs)
    /\ vad_result = NoResult
    /\ now = 1000
    /\ n_calls = 0
    /\ frame_len_in = 0
    /\ buffer = CircularAudioBuffer(SampleRate, BufferDurationMs)
    /\ current_recording = None
    /\ recording_start_time = None
    /\ stats = InitialStats
    /\ session_id = None
    /\ is_running = FALSE
    /\ stop_event = FALSE
    /\ thread = 0
    /\ thread_pc = [g \in Threads |-> "unborn"]
    /\ sr_frame = [g \in Threads |-> NoFrame]
    /\ host_pc = "idle"
    /\ limit = [blocks |-> 0, threads |-> 0, faults |-> MaxFaults]
    /\ faults = 0
    /\ maxsize = QueueMaxsize
    /\ asr_queue = <<>>
    /\ DownstreamIdle
    /\ db_lock = "free"
    /\ next_id = 0
    /\ put_attempts = <<>>
    /\ stop_calls = <<>>
    /\ d1_log = <<>>
    /\ voice_run = 0
    /\ had_voice_run = FALSE
    /\ max_cache_size \in 1..MaxCache
    /\ translation_models = <<>>
    /\ loading_status = {}
    /\ calls = [c \in Callers |-> IdleCall]
    /\ next_model = 0
    /\ n_ops = 0
    /\ pipeline_calls = [k \in TRANSLATION_MODELS |-> 0]
    /\ handed = {}
    /\ evicted = {}
    /\ use_order = <<>>
    /\ PartsIdle

SpecLoader == InitLoader /\ [][LoaderStep]_vars

\* ------------------------------------------------------------------------
\* The frame counters of AudioCaptureThread: the callback updates them
\* statement by statement while other threads call get_stats and reset_stats
\* ------------------------------------------------------------------------
\* _audio_callback: self.stats["total_frames"] += 1 for an accepted frame
CountTotalFrame(is_voice) ==
    /\ cb_pc = "idle"
    /\ stats.total_frames < MaxStatFrames
    /\ stats' = [stats EXCEPT !.total_frames = @ + 1]
    /\ cb_pc' = IF is_voice THEN "voice" ELSE "idle"
    /\ UNCHANGED <<vadVars, capNoStats, queueVars, workerVars, playVars, dbVars, histVars,
                   faults, loaderVars, callVars, seen_stats, ringVars, jitVars>>

\* _audio_callback: if vad_result["is_voice"]: self.stats["voice_frames"] += 1
CountVoiceFrame ==
    /\ cb_pc = "voice"
    /\ stats' = [stats EXCEPT !.voice_frames = @ + 1]
    /\ cb_pc' = "idle"
    /\ UNCHANGED <<vadVars, capNoStats, queueVars, workerVars, playVars, dbVars, histVars,
                   faults, loaderVars, callVars, seen_stats, ringVars, jitVars>>

\* get_stats(): a copy of the counters as they are now
GetStats ==
    /\ seen_stats' = Some(stats)
    /\ UNCHANGED <<vadVars, capVars, queueVars, workerVars, playVars, dbVars, histVars,
                   faults, loaderVars, callVars, cb_pc, ringVars, jitVars>>

\* reset_stats(): self.stats is bound to a dict of zeros
ResetStats ==
    /\ stats' = InitialStats
    /\ UNCHANGED <<vadVars, capNoStats, queueVars, workerVars, playVars, dbVars, histVars,
                   faults, loaderVars, callVars, statVars, ringVars, jitVars>>

InitStats ==
    /\ vad = VADProcessor(SampleRate, CaptureFrameDuration,
                          DefaultVoiceThresholdMs, DefaultSilenceThresholdMs)
    /\ vad_result = NoResult
    /\ now = 1000
    /\ n_calls = 0
    /\ frame_len_in = 0
    /\ IdleRest
    /\ PartsIdle

NextStats ==
    \/ \E is_voice \in BOOLEAN : CountTotalFrame(is_voice)
    \/ CountVoiceFrame
    \/ GetStats
    \/ ResetStats

SpecStats == InitStats /\ [][NextStats]_vars

\* ------------------------------------------------------------------------
\* A CircularAudioBuffer driven on its own, with its contents: sample k is the
\* k-th sample appended (counting from 0), the timestamp of a block the
\* number of its first sample
\* ------------------------------------------------------------------------
\* variant: a deque without maxlen
DequeAppendUnbounded(d, x, maxlen) == Append(d, x)

\* deque(maxlen=...).append(x): a full deque drops its leftmost item
DequeAppend(d, x, maxlen) ==
    IF maxlen = 0 THEN <<>>
    ELSE IF Len(d) >= maxlen THEN Append(Tail(d), x)
    ELSE Append(d, x)

\* add_samples(samples, timestamp): every sample is appended with the timestamp
RECURSIVE AddSamplesTo(_, _, _)
AddSamplesTo(r, samples, timestamp) ==
    IF samples = <<>> THEN r
    ELSE AddSamplesTo([r EXCEPT !.buffer = DequeAppend(@, Head(samples), r.buffer_size),
                                !.timestamps = DequeAppend(@, timestamp, r.buffer_size)],
                      Tail(samples), timestamp)

\* list[-num_samples:]
SliceLast(list, num_samples) ==
    IF num_samples = 0 THEN list
    ELSE IF num_samples >= Len(list) THEN list
    ELSE SubSeq(list, Len(list) - num_samples + 1, Len(list))

\* what get_samples(num_samples) returns
SamplesOf(r, num_samples) ==
    IF Len(r.buffer) < num_samples
    THEN [num_samples |-> num_samples, samples |-> r.buffer, timestamps |-> r.timestamps]
    ELSE [num_samples |-> num_samples,
          samples |-> SliceLast(r.buffer, num_samples),
          timestamps |-> SliceLast(r.timestamps, num_samples)]

\* add_samples on a block of n samples
RingAddSamples(n) ==
    /\ ring_next + n <= MaxRingSamples
    /\ ring' = AddSamplesTo(ring, [i \in 1..n |-> ring_next + i - 1], ring_next)
    /\ ring_next' = ring_next + n
    /\ ring_total' = ring_total + n
    /\ UNCHANGED <<vadVars, capVars, queueVars, workerVars, playVars, dbVars, histVars,
                   faults, loaderVars, callVars, statVars, ring_read, jitVars>>

\* clear()
RingClear ==
    /\ ring' = [ring EXCEPT !.buffer = <<>>, !.timestamps = <<>>]
    /\ ring_total' = 0
    /\ UNCHANGED <<vadVars, capVars, queueVars, workerVars, playVars, dbVars, histVars,
                   faults, loaderVars, callVars, statVars, ring_next, ring_read, jitVars>>

\* get_samples(num_samples)
RingGetSamples(num_samples) ==
    /\ ring_read' = Some(SamplesOf(ring, num_samples))
    /\ UNCHANGED <<vadVars, capVars, queueVars, workerVars, playVars, dbVars, histVars,
                   faults, loaderVars, callVars, statVars, ring, ring_total, ring_next, jitVars>>

\* get_duration_samples(duration): num_samples = int(self.sample_rate * duration)
RingGetDurationSamples(duration_ms) ==
    RingGetSamples(IntDiv(ring.sample_rate * duration_ms, 1000))

InitRing ==
    /\ vad = VADProcessor(SampleRate, CaptureFrameDuration,
                          DefaultVoiceThresholdMs, DefaultSilenceThresholdMs)
    /\ vad_result = NoResult
    /\ now = 1000
    /\ n_calls = 0
    /\ frame_len_in = 0
    /\ IdleRest
    /\ StatsIdle
    /\ JitterIdle
    /\ CallsIdle
    /\ \E sample_rate \in 1..MaxRing, buffer_duration_ms \in {500, 1000} :
          ring = Ring(sample_rate, buffer_duration_ms)
    /\ ring_total = 0
    /\ ring_next = 0
    /\ ring_read = None

NextRing ==
    \/ \E n \in 0..MaxRingBlock : RingAddSamples(n)
    \/ RingClear
    \/ \E num_samples \in 0..(MaxRing + 1) : RingGetSamples(num_samples)
    \/ \E duration_ms \in {0, 200, 500, 1000, 2000} : RingGetDurationSamples(duration_ms)

SpecRing == InitRing /\ [][NextRing]_vars

\* ------------------------------------------------------------------------
\* The playback stage with its JitterBuffer: D2 stays empty, chunks come in
\* through add_audio_chunk, and the loop's queue.Empty branch is followed
\* statement by statement
\* ------------------------------------------------------------------------
\* everything the jitter buffer's session leaves alone
jitterRest == <<vadVars, capVars, queueVars, workerVars, p_chunk, dbVars, histVars,
                faults, loaderVars, callVars, statVars, ringVars>>

\* add_audio_chunk(chunk) -> JitterBuffer.add_chunk: self.buffer.put(chunk),
\* called while the session has not been stopped
AddAudioChunk(n) ==
    /\ ~p_stop_event
    /\ jit_in + n <= MaxJitterSamples
    /\ jitter' = Append(jitter, n)
    /\ jit_in' = jit_in + n
    /\ UNCHANGED <<jitterRest, p_pc, p_stop_event, jit_out, flush_pc>>

\* run(): the loop test finds stop_event clear and input_queue.get(timeout=0.1)
\* is called
PlaybackLoopTest ==
    /\ p_pc = "loop"
    /\ ~p_stop_event
    /\ p_pc' = "get"
    /\ UNCHANGED <<jitterRest, p_stop_event, jitVars>>

\* input_queue.get raises queue.Empty; get_next_chunk evaluates
\* `not self.buffer.empty()`: an empty buffer gives np.array([]) and the loop
\* goes on after a sleep, otherwise self.buffer.get() is called next
PlaybackGetNextChunk ==
    /\ p_pc = "get"
    /\ output_queue = <<>>
    /\ p_pc' = IF jitter = <<>> THEN "loop" ELSE "jitter_get"
    /\ UNCHANGED <<jitterRest, p_stop_event, jitVars>>

\* get_next_chunk: self.buffer.get() (no timeout: waits while the buffer is
\* empty) hands out the oldest chunk, which is written to the stream; a
\* failing write ends run()
PlaybackJitterGet(write_ok) ==
    /\ p_pc = "jitter_get"
    /\ jitter # <<>>
    /\ jitter' = Tail(jitter)
    /\ jit_out' = jit_out + Head(jitter)
    /\ p_pc' = IF write_ok THEN "loop" ELSE "exited"
    /\ UNCHANGED <<vadVars, capVars, queueVars, workerVars, p_chunk, dbVars, histVars,
                   loaderVars, callVars, statVars, ringVars, p_stop_event, jit_in, flush_pc>>
    /\ Failing(~write_ok)

\* stop(): self.stop_event.set(), then flush_buffer() is entered
PlaybackStop ==
    /\ flush_pc = "idle"
    /\ p_stop_event' = TRUE
    /\ flush_pc' = "test"
    /\ UNCHANGED <<jitterRest, p_pc, jitter, jit_in, jit_out>>

\* flush(): while not self.buffer.empty()
FlushTest ==
    /\ flush_pc = "test"
    /\ flush_pc' = IF jitter = <<>> THEN "done" ELSE "get"
    /\ UNCHANGED <<jitterRest, p_pc, p_stop_event, jitter, jit_in, jit_out>>

\* flush(): self.buffer.get() (no timeout) discards the oldest chunk
FlushGet ==
    /\ flush_pc = "get"
    /\ jitter # <<>>
    /\ jitter' = Tail(jitter)
    /\ flush_pc' = "test"
    /\ UNCHANGED <<jitterRest, p_pc, p_stop_event, jit_in, jit_out>>

InitJitter ==
    /\ vad = VADProcessor(SampleRate, CaptureFrameDuration,
                          DefaultVoiceThresholdMs, DefaultSilenceThresholdMs)
    /\ vad_result = NoResult
    /\ now = 1000
    /\ n_calls = 0
    /\ frame_len_in = 0
    /\ buffer = CircularAudioBuffer(SampleRate, BufferDurationMs)
    /\ current_recording = None
    /\ recording_start_time = None
    /\ stats = InitialStats
    /\ session_id = None
    /\ is_running = FALSE
    /\ stop_event = FALSE
    /\ thread = 0
    /\ thread_pc = [g \in Threads |-> "unborn"]
    /\ sr_frame = [g \in Threads |-> NoFrame]
    /\ host_pc = "idle"
    /\ limit = [blocks |-> 0, threads |-> 0, faults |-> MaxFaults]
    /\ faults = 0
    /\ LoaderIdle
    /\ maxsize = QueueMaxsize
    /\ asr_queue = <<>>
    /\ output_queue = <<>>
    /\ w_pc = "unstarted"
    /\ w_job = None
    /\ w_stop_event = FALSE
    /\ translate = FALSE
    /\ p_pc = "opening"
    /\ p_chunk = None
    /\ p_stop_event = FALSE
    /\ db_lock = "free"
    /\ db_rows = {}
    /\ d2_log = <<>>
    /\ next_id = 0
    /\ put_attempts = <<>>
    /\ stop_calls = <<>>
    /\ d1_log = <<>>
    /\ voice_run = 0
    /\ had_voice_run = FALSE
    /\ StatsIdle
    /\ RingIdle
    /\ JitterIdle
    /\ CallsIdle

NextJitter ==
    \/ \E n \in 1..MaxChunkSamples : AddAudioChunk(n)
    \/ \E open_ok \in BOOLEAN : PlaybackOpenStream(open_ok)
    \/ PlaybackExit
    \/ PlaybackLoopTest
    \/ PlaybackGetNextChunk
    \/ \E write_ok \in BOOLEAN : PlaybackJitterGet(write_ok)
    \/ PlaybackStop
    \/ FlushTest
    \/ FlushGet

SpecJitter == InitJitter /\ [][NextJitter]_vars

\* ------------------------------------------------------------------------
\* The synthesis step of ASRTranslationSynthesisThread.run followed on its
\* own: the decoded samples are normalised and the chunk is put into D2.
\* A float32 value is held as its kind and, when finite, the fraction num/den.
\* ------------------------------------------------------------------------
\* nothing of the pipeline is started and no part but the calls is in use
BareInit ==
    /\ vad = VADProcessor(SampleRate, CaptureFrameDuration,
                          DefaultVoiceThresholdMs, DefaultSilenceThresholdMs)
    /\ vad_result = NoResult
    /\ now = 1000
    /\ n_calls = 0
    /\ frame_len_in = 0
    /\ IdleRest
    /\ StatsIdle
    /\ RingIdle
    /\ JitterIdle

Abs(x) == IF x < 0 THEN -x ELSE x

\* np.max(np.abs(a)) of a non-empty array
RECURSIVE MaxAbs(_)
MaxAbs(a) == IF Len(a) = 1 THEN Abs(a[1]) ELSE Max(Abs(a[1]), MaxAbs(Tail(a)))

Finite(num, den) == [kind |-> "finite", num |-> num, den |-> den]

NaN == [kind |-> "nan", num |-> 0, den |-> 1]

Inf(sign) == [kind |-> "inf", num |-> sign, den |-> 1]

\* x / m on float32 values as numpy divides: 0/0 is nan, x/0 is +-inf
FloatDiv(x, m) ==
    IF m # 0 THEN Finite(x, m)
    ELSE IF x = 0 THEN NaN
    ELSE Inf(IF x > 0 THEN 1 ELSE -1)

\* np.array(samples, dtype=np.float32); if len(audio_fp) > 0:
\*     audio_fp = audio_fp / np.max(np.abs(audio_fp))
NormalizeByPeak(samples) ==
    IF Len(samples) > 0
    THEN [i \in 1..Len(samples) |-> FloatDiv(samples[i], MaxAbs(samples))]
    ELSE [i \in 1..Len(samples) |-> Finite(samples[i], 1)]

\* the sample arrays AudioSegment.get_array_of_samples() is tried with
DecodedArrays ==
    UNION {[1..n -> (-MaxAmplitude)..MaxAmplitude] : n \in 0..MaxDecodedLen}

InitSynth ==
    /\ BareInit
    /\ \E samples \in DecodedArrays : synth = [decoded |-> samples, chunk |-> None]
    /\ long_audio = None
    /\ written = None
    /\ decisions = <<>>
    /\ translator = None

\* normalise the decoded samples and self.queue_out.put(audio_fp)
SynthPut ==
    /\ synth.chunk = None
    /\ synth' = [synth EXCEPT !.chunk = Some(NormalizeByPeak(synth.decoded))]
    /\ UNCHANGED <<vadVars, capVars, queueVars, workerVars, playVars, dbVars, histVars,
                   faults, loaderVars, statVars, ringVars, jitVars,
                   long_audio, written, decisions, translator>>

SpecSynth == InitSynth /\ [][SynthPut]_vars

\* ------------------------------------------------------------------------
\* transcribe_long_audio(audio_file, model, chunk_length) followed call by
\* call of model.transcribe.  A text is a sequence of characters; the audio
\* is its number of samples at 16000 Hz, a chunk the range [lo, hi) it holds.
\* ------------------------------------------------------------------------
\* the texts model.transcribe is taken to return
ChunkTexts == {<<>>, <<"a">>, <<" ", "b">>, <<"c", " ">>}

\* variant: the texts put one after the other with nothing between them
RECURSIVE JoinTextsBare(_)
JoinTextsBare(texts) ==
    IF texts = <<>> THEN <<>> ELSE Head(texts) \o JoinTextsBare(Tail(texts))

\* " ".join(texts)
RECURSIVE JoinTexts(_)
JoinTexts(texts) ==
    IF texts = <<>> THEN <<>>
    ELSE IF Len(texts) = 1 THEN texts[1]
    ELSE texts[1] \o <<" ">> \o JoinTexts(Tail(texts))

RECURSIVE LStrip(_)
LStrip(s) == IF s # <<>> /\ Head(s) = " " THEN LStrip(Tail(s)) ELSE s

RECURSIVE RStrip(_)
RStrip(s) ==
    IF s # <<>> /\ s[Len(s)] = " " THEN RStrip(SubSeq(s, 1, Len(s) - 1)) ELSE s

\* str.strip()
Strip(s) == RStrip(LStrip(s))

\* the audio and chunk length of the call, before its first statement
LongAudioCall(samples, chunk_length) ==
    [ samples |-> samples, chunk_length |-> chunk_length, pc |-> "load",
      i |-> 0, texts |-> <<>>, combined_text |-> <<>>,
      calls |-> <<>>,        \* the model.transcribe calls made: input and outcome
      result |-> None ]      \* None, the dict returned, or "raised"

\* a model.transcribe call on the samples [lo, hi) of the audio
TranscribeCall(of, lo, hi, text, ok) ==
    [of |-> of, lo |-> lo, hi |-> hi, text |-> text, ok |-> ok]

WholeFile(a, text, ok) == TranscribeCall("file", 0, a.samples, text, ok)

TranscribeResult(text, language) == [text |-> text, language |-> language]

\* the exception of model.transcribe leaves transcribe_long_audio
RaisedToCaller == TranscribeResult(<<>>, "raised")

longRest == <<vadVars, capVars, queueVars, workerVars, playVars, dbVars, histVars,
              loaderVars, statVars, ringVars, jitVars,
              synth, written, decisions, translator>>

\* librosa.load; audio_duration <= chunk_length; chunk_size = chunk_length * sr
LongLoad(ok) ==
    /\ long_audio.pc = "load"
    /\ long_audio' = [long_audio EXCEPT !.pc =
                         IF ~ok THEN "fallback"
                         ELSE IF long_audio.samples <= long_audio.chunk_length * SampleRate
                         THEN "short" ELSE "loop"]
    /\ UNCHANGED longRest
    /\ Failing(~ok)

\* if audio_duration <= chunk_length: return model.transcribe(audio_file)
LongShort(text, ok) ==
    /\ long_audio.pc = "short"
    /\ long_audio' = [long_audio EXCEPT
                         !.calls = Append(@, WholeFile(long_audio, text, ok)),
                         !.pc = IF ok THEN "returned" ELSE "fallback",
                         !.result = IF ok THEN Some(TranscribeResult(text, "detected")) ELSE @]
    /\ UNCHANGED longRest
    /\ Failing(~ok)

\* one turn of `for i in range(0, len(audio), chunk_size)`
LongChunk(text, ok) ==
    /\ long_audio.pc = "loop"
    /\ long_audio.i < long_audio.samples
    /\ LET chunk_size == long_audio.chunk_length * SampleRate
           lo == long_audio.i
           hi == Min(lo + chunk_size, long_audio.samples)
       IN long_audio' = [long_audio EXCEPT
                            !.calls = Append(@, TranscribeCall("chunk", lo, hi, text, ok)),
                            !.texts = IF ok THEN Append(@, text) ELSE @,
                            !.i = IF ok THEN lo + chunk_size ELSE @,
                            !.pc = IF ok THEN "loop" ELSE "fallback"]
    /\ UNCHANGED longRest
    /\ Failing(~ok)

\* combined_text = " ".join(texts).strip()
LongCombine ==
    /\ long_audio.pc = "loop"
    /\ long_audio.i >= long_audio.samples
    /\ long_audio' = [long_audio EXCEPT !.combined_text = Strip(JoinTexts(long_audio.texts)),
                                        !.pc = "language"]
    /\ UNCHANGED <<longRest, faults>>

\* language = model.transcribe(audio_file, language=None)["language"], "es"
\* when that raises; the dict is returned
LongLanguage(text, ok) ==
    /\ long_audio.pc = "language"
    /\ long_audio' = [long_audio EXCEPT
                         !.calls = Append(@, WholeFile(long_audio, text, ok)),
                         !.pc = "returned",
                         !.result = Some(TranscribeResult(long_audio.combined_text,
                                                          IF ok THEN "detected" ELSE "es"))]
    /\ UNCHANGED longRest
    /\ Failing(~ok)

\* except ImportError / except Exception: return model.transcribe(audio_file)
LongFallback(text, ok) ==
    /\ long_audio.pc = "fallback"
    /\ long_audio' = [long_audio EXCEPT
                         !.calls = Append(@, WholeFile(long_audio, text, ok)),
                         !.pc = "returned",
                         !.result = Some(IF ok THEN TranscribeResult(text, "detected")
                                         ELSE RaisedToCaller)]
    /\ UNCHANGED longRest
    /\ Failing(~ok)

\* audio of 1..MaxAudioHalfSeconds half seconds, chunks of 1 or 2 seconds
InitLong ==
    /\ vad = VADProcessor(SampleRate, CaptureFrameDuration,
                          DefaultVoiceThresholdMs, DefaultSilenceThresholdMs)
    /\ vad_result = NoResult
    /\ now = 1000
    /\ n_calls = 0
    /\ frame_len_in = 0
    /\ buffer = CircularAudioBuffer(SampleRate, BufferDurationMs)
    /\ current_recording = None
    /\ recording_start_time = None
    /\ stats = InitialStats
    /\ session_id = None
    /\ is_running = FALSE
    /\ stop_event = FALSE
    /\ thread = 0
    /\ thread_pc = [g \in Threads |-> "unborn"]
    /\ sr_frame = [g \in Threads |-> NoFrame]
    /\ host_pc = "idle"
    /\ limit = [blocks |-> 0, threads |-> 0, faults |-> MaxLongFaults]
    /\ faults = 0
    /\ LoaderIdle
    /\ maxsize = 1
    /\ asr_queue = <<>>
    /\ DownstreamIdle
    /\ db_lock = "free"
    /\ next_id = 0
    /\ put_attempts = <<>>
    /\ stop_calls = <<>>
    /\ d1_log = <<>>
    /\ voice_run = 0
    /\ had_voice_run = FALSE
    /\ StatsIdle
    /\ RingIdle
    /\ JitterIdle
    /\ synth = None
    /\ \E h \in 1..MaxAudioHalfSeconds, chunk_length \in 1..MaxChunkLength :
          long_audio = LongAudioCall(h * (SampleRate \div 2), chunk_length)
    /\ written = None
    /\ decisions = <<>>
    /\ translator = None

NextLong ==
    \/ \E ok \in BOOLEAN : LongLoad(ok)
    \/ \E text \in ChunkTexts, ok \in BOOLEAN : LongShort(text, ok)
    \/ \E text \in ChunkTexts, ok \in BOOLEAN : LongChunk(text, ok)
    \/ LongCombine
    \/ \E text \in ChunkTexts, ok \in BOOLEAN : LongLanguage(text, ok)
    \/ \E text \in ChunkTexts, ok \in BOOLEAN : LongFallback(text, ok)

SpecLong == InitLong /\ [][NextLong]_vars

\* ------------------------------------------------------------------------
\* BlackHoleReproductionThread.run playing one item taken from D2: the item
\* is its number of samples, a sub-chunk the range [lo, hi) of them it holds
\* ------------------------------------------------------------------------
\* the item popped, before the loop over its sub-chunks
PlayItem(samples) == [samples |-> samples, pc |-> "loop", i |-> 0, writes |-> <<>>]

\* variant: a slice that does not end with the array
SliceEndBeyond(i, n) == i + PlaybackChunkSize

\* the end of audio_chunk[i:i+chunk_size] for an array of n samples
SliceEnd(i, n) == Min(i + PlaybackChunkSize, n)

writtenRest == <<vadVars, capVars, queueVars, workerVars, playVars, dbVars, histVars,
                 loaderVars, statVars, ringVars, jitVars,
                 synth, long_audio, decisions, translator>>

\* one turn of `for i in range(0, len(audio_chunk), chunk_size)`:
\* stream.write(chunk) when chunk.size > 0; a write that raises ends the loop
\* (except clause at the end of the item)
WriteSubChunk(ok) ==
    /\ written.pc = "loop"
    /\ written.i < written.samples
    /\ LET lo == written.i
           hi == SliceEnd(lo, written.samples)
       IN written' = [written EXCEPT
                         !.writes = IF hi - lo > 0 /\ ok THEN Append(@, <<lo, hi>>) ELSE @,
                         !.i = lo + PlaybackChunkSize,
                         !.pc = IF hi - lo > 0 /\ ~ok THEN "failed" ELSE "loop"]
    /\ UNCHANGED writtenRest
    /\ Failing(~ok)

\* the loop is over: "Played audio chunk" is logged
WriteDone ==
    /\ written.pc = "loop"
    /\ written.i >= written.samples
    /\ written' = [written EXCEPT !.pc = "played"]
    /\ UNCHANGED <<writtenRest, faults>>

InitWritten ==
    /\ vad = VADProcessor(SampleRate, CaptureFrameDuration,
                          DefaultVoiceThresholdMs, DefaultSilenceThresholdMs)
    /\ vad_result = NoResult
    /\ now = 1000
    /\ n_calls = 0
    /\ frame_len_in = 0
    /\ buffer = CircularAudioBuffer(SampleRate, BufferDurationMs)
    /\ current_recording = None
    /\ recording_start_time = None
    /\ stats = InitialStats
    /\ session_id = None
    /\ is_running = FALSE
    /\ stop_event = FALSE
    /\ thread = 0
    /\ thread_pc = [g \in Threads |-> "unborn"]
    /\ sr_frame = [g \in Threads |-> NoFrame]
    /\ host_pc = "idle"
    /\ limit = [blocks |-> 0, threads |-> 0, faults |-> MaxFaults]
    /\ faults = 0
    /\ LoaderIdle
    /\ maxsize = 1
    /\ asr_queue = <<>>
    /\ DownstreamIdle
    /\ db_lock = "free"
    /\ next_id = 0
    /\ put_attempts = <<>>
    /\ stop_calls = <<>>
    /\ d1_log = <<>>
    /\ voice_run = 0
    /\ had_voice_run = FALSE
    /\ StatsIdle
    /\ RingIdle
    /\ JitterIdle
    /\ synth = None
    /\ long_audio = None
    /\ \E samples \in 0..MaxItemSamples : written = PlayItem(samples)
    /\ decisions = <<>>
    /\ translator = None

NextWritten ==
    \/ \E ok \in BOOLEAN : WriteSubChunk(ok)
    \/ WriteDone

SpecWritten == InitWritten /\ [][NextWritten]_vars

\* ------------------------------------------------------------------------
\* One VADProcessor fed frame after frame, with the decisions it gave
\* ------------------------------------------------------------------------
\* what a returned dict decides
DecisionOf(result) ==
    IF result.should_start_recording /\ result.should_stop_recording THEN <<"both">>
    ELSE IF result.should_start_recording THEN <<"start">>
    ELSE IF result.should_stop_recording THEN <<"stop">>
    ELSE <<>>

\* one call of process_frame, its decision noted
FeedFrame(frame_len, is_voice) ==
    /\ n_calls < MaxCalls
    /\ LET r == process_frame(vad, frame_len, is_voice, now)
       IN /\ vad' = r.vad
          /\ vad_result' = r.result
          /\ decisions' = decisions \o DecisionOf(r.result)
    /\ now' = now + vad.frame_duration
    /\ n_calls' = n_calls + 1
    /\ frame_len_in' = frame_len
    /\ UNCHANGED <<capVars, queueVars, workerVars, playVars, dbVars, histVars,
                   faults, loaderVars, statVars, ringVars, jitVars,
                   synth, long_audio, written, translator>>

InitDecisions ==
    /\ \E fd \in FrameDurations :
         \E vt \in ThresholdChoices(fd), st \in ThresholdChoices(fd) :
            vad = VADProcessor(SampleRate, fd, vt, st)
    /\ vad_result = NoResult
    /\ now = 1000
    /\ n_calls = 0
    /\ frame_len_in = 0
    /\ IdleRest
    /\ PartsIdle

NextDecisions ==
    \/ \E is_voice \in BOOLEAN : FeedFrame(vad.frame_size, is_voice)
    \/ \E d \in {-1, 1}, is_voice \in BOOLEAN : FeedFrame(vad.frame_size + d, is_voice)

SpecDecisions == InitDecisions /\ [][NextDecisions]_vars

\* ------------------------------------------------------------------------
\* RealTimeTranslator.start() and stop(), statement by statement.  A stage
\* thread is named by the start() call that created it and its stage.
\* ------------------------------------------------------------------------
\* the stages in the order start() and stop() go through them
StageOrder == <<"capture", "processing", "output">>

\* RealTimeTranslator after __init__
NewTranslator ==
    [ pc |-> "idle",          \* where the caller of start() stands
      running |-> FALSE,      \* self.running
      call |-> 0,             \* start() calls made so far
      next |-> 1,             \* the stage the next .start() is called on
      result |-> "none",      \* what the latest start() returned
      alive |-> {},           \* stage threads started and not ended
      stop_requested |-> {} ] \* stage threads whose stage was given stop()

trRest == <<vadVars, capVars, queueVars, workerVars, playVars, dbVars, histVars,
            loaderVars, statVars, ringVars, jitVars,
            synth, long_audio, written, decisions>>

\* start(): `if self.running: return`, else on to the three _init_ calls
TrStartCall ==
    /\ translator.pc \in {"idle", "returned"}
    /\ translator.call < MaxStartCalls
    /\ translator' = IF translator.running
                     THEN [translator EXCEPT !.pc = "returned", !.result = "None",
                                             !.call = @ + 1]
                     ELSE [translator EXCEPT !.pc = "init", !.result = "none",
                                             !.call = @ + 1, !.next = 1]
    /\ UNCHANGED <<trRest, faults>>

\* the three _init_..._thread calls; one that fails returns None and
\* start() returns False before anything is started
TrInitStages(all_ok) ==
    /\ translator.pc = "init"
    /\ translator' = IF all_ok
                     THEN [translator EXCEPT !.pc = "start"]
                     ELSE [translator EXCEPT !.pc = "returned", !.result = "False"]
    /\ UNCHANGED trRest
    /\ Failing(~all_ok)

\* inside the try: <stage>.start() creates and starts the stage's thread, or raises
TrStartStage(ok) ==
    /\ translator.pc = "start"
    /\ translator.next <= Len(StageOrder)
    /\ translator' =
          IF ok
          THEN [translator EXCEPT
                   !.alive = @ \cup {<<translator.call, StageOrder[translator.next]>>},
                   !.next = @ + 1]
          ELSE [translator EXCEPT !.pc = "except"]
    /\ UNCHANGED trRest
    /\ Failing(~ok)

\* self.stats_overlay.start(), then self.running = True; self.stop_event.clear()
TrStartOverlay(ok) ==
    /\ translator.pc = "start"
    /\ translator.next > Len(StageOrder)
    /\ translator' = IF ok
                     THEN [translator EXCEPT !.pc = "monitor", !.running = TRUE]
                     ELSE [translator EXCEPT !.pc = "except"]
    /\ UNCHANGED trRest
    /\ Failing(~ok)

\* monitor_thread.start(); return True
TrStartMonitor(ok) ==
    /\ translator.pc = "monitor"
    /\ translator' = IF ok
                     THEN [translator EXCEPT !.pc = "returned", !.result = "True"]
                     ELSE [translator EXCEPT !.pc = "except"]
    /\ UNCHANGED trRest
    /\ Failing(~ok)

\* stop(): `if not self.running: return`; else self.running = False and
\* stop() is called on the three stages the translator holds
StopStages(tr) ==
    IF ~tr.running THEN tr
    ELSE [tr EXCEPT !.running = FALSE,
                    !.stop_requested = @ \cup {th \in tr.alive : th[1] = tr.call}]

\* except Exception: self.stop(); return False
TrExcept ==
    /\ translator.pc = "except"
    /\ translator' = [StopStages(translator) EXCEPT !.pc = "returned", !.result = "False"]
    /\ UNCHANGED <<trRest, faults>>

\* the host calls stop() after a start() that has returned
TrStop ==
    /\ translator.pc = "returned"
    /\ translator.running
    /\ translator' = StopStages(translator)
    /\ UNCHANGED <<trRest, faults>>

\* a stage thread that was told to stop leaves its loop and ends
StageThreadEnds(th) ==
    /\ th \in translator.alive
    /\ th \in translator.stop_requested
    /\ translator' = [translator EXCEPT !.alive = @ \ {th}]
    /\ UNCHANGED <<trRest, faults>>

\* a stage thread ends on its own: its device or its models cannot be opened
StageThreadFails(th) ==
    /\ th \in translator.alive
    /\ th \notin translator.stop_requested
    /\ translator' = [translator EXCEPT !.alive = @ \ {th}]
    /\ UNCHANGED trRest
    /\ Failing(TRUE)

InitTranslator ==
    /\ vad = VADProcessor(SampleRate, CaptureFrameDuration,
                          DefaultVoiceThresholdMs, DefaultSilenceThresholdMs)
    /\ vad_result = NoResult
    /\ now = 1000
    /\ n_calls = 0
    /\ frame_len_in = 0
    /\ buffer = CircularAudioBuffer(SampleRate, BufferDurationMs)
    /\ current_recording = None
    /\ recording_start_time = None
    /\ stats = InitialStats
    /\ session_id = None
    /\ is_running = FALSE
    /\ stop_event = FALSE
    /\ thread = 0
    /\ thread_pc = [g \in Threads |-> "unborn"]
    /\ sr_frame = [g \in Threads |-> NoFrame]
    /\ host_pc = "idle"
    /\ limit = [blocks |-> 0, threads |-> 0, faults |-> MaxFaults]
    /\ faults = 0
    /\ LoaderIdle
    /\ maxsize = QueueMaxsize
    /\ asr_queue = <<>>
    /\ DownstreamIdle
    /\ db_lock = "free"
    /\ next_id = 0
    /\ put_attempts = <<>>
    /\ stop_calls = <<>>
    /\ d1_log = <<>>
    /\ voice_run = 0
    /\ had_voice_run = FALSE
    /\ StatsIdle
    /\ RingIdle
    /\ JitterIdle
    /\ synth = None
    /\ long_audio = None
    /\ written = None
    /\ decisions = <<>>
    /\ translator = NewTranslator

StageThreads == (1..MaxStartCalls) \X {StageOrder[k] : k \in 1..Len(StageOrder)}

NextTranslator ==
    \/ TrStartCall
    \/ \E all_ok \in BOOLEAN : TrInitStages(all_ok)
    \/ \E ok \in BOOLEAN : TrStartStage(ok)
    \/ \E ok \in BOOLEAN : TrStartOverlay(ok)
    \/ \E ok \in BOOLEAN : TrStartMonitor(ok)
    \/ TrExcept
    \/ TrStop
    \/ \E th \in StageThreads : StageThreadEnds(th)
    \/ \E th \in StageThreads : StageThreadFails(th)

SpecTranslator == InitTranslator /\ [][NextTranslator]_vars

\* ------------------------------------------------------------------------
\* Properties of VADProcessor.process_frame (checked under SpecVAD)
\* ------------------------------------------------------------------------
\* a step that is one process_frame call on a frame of the right size
AcceptedFrame == n_calls' = n_calls + 1 /\ frame_len_in' = vad.frame_size

\* C4: while Idle, a voice frame that brings the voice streak to the voice
\* threshold V yields should_start, switches to Recording and records the
\* start time; a voice frame that leaves the streak below V leaves the
\* processor Idle with should_start false.
C4_StartAtThreshold ==
    [][ (AcceptedFrame /\ ~vad.is_recording /\ vad_result'.is_voice) =>
          /\ ~vad_result'.error
          /\ vad'.consecutive_voice_frames = vad.consecutive_voice_frames + 1
          /\ IF vad.consecutive_voice_frames + 1 >= vad.voice_frames_threshold
             THEN /\ vad_result'.should_start_recording
                  /\ vad'.is_recording
                  /\ vad'.recording_start_time = Some(now)
             ELSE /\ ~vad_result'.should_start_recording
                  /\ ~vad'.is_recording
                  /\ vad'.recording_start_time = vad.recording_start_time ]_vars

\* a start decided by the second voice frame of a streak, after a first one
\* that left the processor Idle
C4_Witness ==
    /\ vad_result.should_start_recording
    /\ vad.is_recording
    /\ vad.voice_frames_threshold = 2
    /\ vad.consecutive_voice_frames = 2
    /\ frame_len_in = vad.frame_size

\* C5: while Recording, a silence frame that brings the silence streak to the
\* silence threshold S yields should_stop together with a recording_duration
\* and switches to Idle; a silence frame that leaves the streak below S, and
\* any voice frame, leaves the processor Recording with should_stop false.
C5_StopAtThreshold ==
    [][ (AcceptedFrame /\ vad.is_recording) =>
          /\ ~vad_result'.error
          /\ IF ~vad_result'.is_voice
                 /\ vad.consecutive_silence_frames + 1 >= vad.silence_frames_threshold
             THEN /\ vad_result'.should_stop_recording
                  /\ vad_result'.recording_duration # None
                  /\ ~vad'.is_recording
             ELSE /\ ~vad_result'.should_stop_recording
                  /\ vad_result'.recording_duration = None
                  /\ vad'.is_recording ]_vars

\* a stop decided by the second silence frame of a streak
C5_Witness ==
    /\ vad_result.should_stop_recording
    /\ ~vad.is_recording
    /\ vad.silence_frames_threshold = 2
    /\ vad.consecutive_silence_frames = 2
    /\ vad_result.recording_duration # None
    /\ frame_len_in = vad.frame_size

\* C6: a frame whose length is not the configured frame size makes
\* process_frame return a decision carrying the error marker and leaves the
\* voice streak, the silence streak, the recording flag and the recorded
\* start time as they were.
C6_MismatchLeavesState ==
    [][ (n_calls' = n_calls + 1 /\ frame_len_in' # vad.frame_size) =>
          /\ vad_result'.error
          /\ ~vad_result'.should_start_recording
          /\ ~vad_result'.should_stop_recording
          /\ vad'.consecutive_voice_frames = vad.consecutive_voice_frames
          /\ vad'.consecutive_silence_frames = vad.consecutive_silence_frames
          /\ vad'.is_recording = vad.is_recording
          /\ vad'.recording_start_time = vad.recording_start_time ]_vars

\* a frame one sample too long handed to a Recording processor in the middle
\* of a voice streak
C6_Witness ==
    /\ vad_result.error
    /\ frame_len_in = vad.frame_size + 1
    /\ vad.is_recording
    /\ vad.consecutive_voice_frames >= 1
    /\ vad.recording_start_time # None

\* ------------------------------------------------------------------------
\* Properties of the capture stage run alone (checked under SpecCapture)
\* ------------------------------------------------------------------------
\* a step in which _stop_recording hands an utterance to asr_queue.put
PutAttempt == Len(put_attempts') = Len(put_attempts) + 1

\* a step in which a _stop_recording call that went on to the logger returns
StopRecordingReturns(g) == thread_pc[g] = "sr_insert" /\ thread_pc'[g] # "sr_insert"

\* C1: an utterance handed to D1 while D1 is full (and stays full for the
\* whole wait) is dropped: queue_timeouts grows by exactly 1, recordings_created
\* and the contents of D1 stay as they were, and the accumulator is cleared
\* when _stop_recording returns, whether or not the row for the drop could be
\* written.  Hence, with nothing consuming D1 and D1 of capacity C, after N
\* utterances have been handed to D1 it holds min(N, C) of them and
\* queue_timeouts = max(0, N - C).
C1_DropOnFullQueue ==
    [][ /\ (PutAttempt /\ Len(asr_queue) >= maxsize) =>
              /\ stats'.queue_timeouts = stats.queue_timeouts + 1
              /\ stats'.recordings_created = stats.recordings_created
              /\ asr_queue' = asr_queue
              /\ d1_log' = d1_log
              /\ \/ current_recording' = None
                 \/ \E g \in Threads : thread_pc'[g] = "sr_lock" /\ sr_frame'[g].dropped
        /\ \A g \in Threads :
              StopRecordingReturns(g) =>
                 /\ current_recording' = None
                 /\ asr_queue' = asr_queue
                 /\ stats'.queue_timeouts = stats.queue_timeouts
                 /\ stats'.recordings_created = stats.recordings_created
        /\ Len(asr_queue') = Min(Len(put_attempts'), maxsize)
        /\ stats'.queue_timeouts = Max(0, Len(put_attempts') - maxsize)
        /\ stats'.recordings_created = Len(asr_queue') ]_vars

\* two utterances dropped on a full D1 of capacity 2, the accumulator cleared
C1_Witness ==
    /\ maxsize = 2
    /\ Len(asr_queue) = 2
    /\ Len(put_attempts) = 4
    /\ stats.queue_timeouts = 2
    /\ stats.recordings_created = 2
    /\ current_recording = None
    /\ \A g \in Threads : thread_pc[g] \notin {"sr_lock", "sr_insert"}

\* C8: as long as the input has held no run of V consecutive voice frames,
\* no accumulator has been opened, _stop_recording has had nothing to close,
\* no push into D1 has been attempted, D1 is empty and recordings_created is
\* 0; this covers the flush at shutdown.
C8_NoVoiceRunNoUtterance ==
    ~had_voice_run =>
        /\ next_id = 0
        /\ current_recording = None
        /\ stop_calls = <<>>
        /\ put_attempts = <<>>
        /\ asr_queue = <<>>
        /\ stats.recordings_created = 0
        /\ stats.queue_timeouts = 0

\* a session over (thread ended) whose input held isolated voice frames but
\* never two in a row, with V = 2
C8_Witness ==
    /\ ~had_voice_run
    /\ vad.voice_frames_threshold = 2
    /\ stats.voice_frames >= 2
    /\ stats.total_frames >= 4
    /\ thread # 0
    /\ thread_pc[thread] = "done"
    /\ host_pc = "idle"
    /\ ~is_running

\* ------------------------------------------------------------------------
\* Properties of the capture stage under stop() and start() (SpecRestart)
\* ------------------------------------------------------------------------
\* no value occurs twice in the sequence
NoRepeat(seq) == \A i, j \in DOMAIN seq : i # j => seq[i] # seq[j]

\* C9: no accumulator is handed to D1 more than once, whatever frames, stops,
\* starts and shutdown flushes occur: each goes through _stop_recording at
\* most once, with at most one push attempt and at most one enqueue.
C9_EmittedAtMostOnce ==
    /\ NoRepeat(stop_calls)
    /\ NoRepeat(put_attempts)
    /\ NoRepeat(d1_log)

\* ------------------------------------------------------------------------
\* Properties of the pipeline (checked under Spec)
\* ------------------------------------------------------------------------
\* C2: the capture callback never waits on something only the worker or the
\* playback thread can release: it is never at the entry of the logger's
\* `with self.lock` while one of them holds DatabaseLogger.lock.
C2_CallbackNeverWaitsOnOtherStage ==
    \A g \in Threads :
        (thread_pc[g] = "sr_lock" /\ sr_frame[g].caller = "callback")
            => db_lock \notin {"worker", "playback"}

\* C3: the depth of D1 and the depth of D2 lie between 0 and the capacity
\* the queues were created with, in every reachable state.
C3_QueueDepthWithinCapacity ==
    /\ Len(asr_queue) \in 0..maxsize
    /\ Len(output_queue) \in 0..maxsize

\* both queues full at once, the worker waiting to put one more chunk
C3_Witness ==
    /\ Len(asr_queue) = maxsize
    /\ Len(output_queue) = maxsize
    /\ w_pc = "put"

\* position of the utterance in the order of enqueueing into D1
PosInD1(id) == CHOOSE k \in DOMAIN d1_log : d1_log[k] = id

\* C10: the chunks enter D2 in the order in which their source utterances
\* were enqueued into D1: every chunk of D2 stems from an utterance that was
\* enqueued into D1, and a chunk enqueued later stems from an utterance
\* enqueued later.
C10_D2FollowsD1Order ==
    /\ \A i \in DOMAIN d2_log : \E k \in DOMAIN d1_log : d1_log[k] = d2_log[i]
    /\ \A i, j \in DOMAIN d2_log : i < j => PosInD1(d2_log[i]) < PosInD1(d2_log[j])

\* two chunks in D2 history, with an utterance between them that produced no
\* chunk
C10_Witness ==
    /\ Len(d2_log) >= 2
    /\ Len(d1_log) >= 3
    /\ d2_log[2] > d2_log[1] + 1

\* ------------------------------------------------------------------------
\* Properties of the scripted run with the defaults (SpecScenario)
\* ------------------------------------------------------------------------
\* the waveform has been delivered and the capture stage has stopped
ScenarioOver ==
    /\ n_calls = ScenarioBlocks
    /\ thread = 1
    /\ thread_pc[1] = "done"
    /\ host_pc = "idle"

\* the utterance lasts at least ms milliseconds
LastsAtLeast(info, ms) == info.samples * 1000 >= ms * SampleRate

\* C7 as stated: after 1.0 s speech, 0.5 s silence, 1.0 s speech and stop(),
\* D1 holds exactly 2 utterances and each lasts at least 1.0 s plus the
\* pre-roll.
C7_TwoUtterancesEachWithPreRoll ==
    ScenarioOver =>
        /\ Len(asr_queue) = 2
        /\ \A i \in DOMAIN asr_queue :
              LastsAtLeast(asr_queue[i], ScenarioInput[1].ms + PreRollMs)

\* C7, amended: D1 holds exactly 2 utterances (and never more on the way),
\* nothing was dropped, each lasts at least 1.0 s, and the first, closed by
\* the silence, lasts at least 1.0 s plus the pre-roll.
C7_TwoUtterances ==
    /\ Len(asr_queue) <= 2
    /\ ScenarioOver =>
          /\ Len(asr_queue) = 2
          /\ stats.recordings_created = 2
          /\ stats.queue_timeouts = 0
          /\ \A i \in DOMAIN asr_queue : LastsAtLeast(asr_queue[i], ScenarioInput[1].ms)
          /\ LastsAtLeast(asr_queue[1], ScenarioInput[1].ms + PreRollMs)

\* the run is over, the second utterance having been flushed by stop()
\* shorter than 1.0 s plus the pre-roll
C7_Witness ==
    /\ ScenarioOver
    /\ Len(asr_queue) = 2
    /\ d1_log = <<1, 2>>
    /\ ~LastsAtLeast(asr_queue[2], ScenarioInput[3].ms + PreRollMs)
    /\ LastsAtLeast(asr_queue[2], ScenarioInput[3].ms)

\* ------------------------------------------------------------------------
\* Properties of the worker's loop body (checked under Spec and SpecWorker)
\* ------------------------------------------------------------------------
\* the utterances the worker has popped from D1 and is done with
WorkerDone ==
    ({d1_log[k] : k \in DOMAIN d1_log} \ {asr_queue[i].id : i \in DOMAIN asr_queue})
        \ (IF w_job = None THEN {} ELSE {TheValue(w_job).item})

\* C11: with a session id set, every utterance the worker has popped from D1
\* and is done with has a worker row (thread_id 2) in translation_logs,
\* whichever way its job ended.
C11_EveryPoppedUtteranceLogged ==
    session_id # None =>
        \A id \in WorkerDone : \E row \in db_rows : row.thread_id = 2 /\ row.item = id

\* C12: none of the recoverable error kinds ends a stage: the worker's run()
\* is over only after stop() was called on it, and a _run thread of the
\* capture stage is over only after stop() or a failure of the device.
C12_NoRecoverableErrorEndsAStage ==
    /\ w_pc \in {"exited", "dead"} => w_stop_event
    /\ \A g \in Threads :
          thread_pc[g] = "done" => (stop_event \/ stats.processing_errors > 0)

\* the job the worker takes up for the oldest utterance of D1
JobOf(asr, mt, tts) == process_segment(QueueHead(asr_queue), asr, mt, tts, translate)

\* the step takes an utterance out of D1
TakesFromD1 == w_pc = "get" /\ Len(asr_queue') < Len(asr_queue)

\* a job that is being logged goes back to the top of the loop
LoggingReturnsToLoop ==
    (w_pc \in {"log_lock", "log_insert"} /\ w_pc' # w_pc) => w_pc' \in {"log_insert", "loop"}

\* C13: when the ASR call returns empty text or raises, the pass of the loop
\* calls neither the translation nor the synthesis, puts nothing into D2 and
\* ends at the top of the loop (after the row for the utterance, if any).
C13_EmptyTranscriptionSkipsSynthesis ==
    [][ /\ TakesFromD1 =>
            \A asr \in {"empty", "raise"}, mt \in MtOutcomes, tts \in TtsOutcomes :
              WorkerGet(asr, mt, tts) =>
                  /\ ~JobOf(asr, mt, tts).mt_called
                  /\ ~JobOf(asr, mt, tts).tts_called
                  /\ "Empty transcription" \in JobOf(asr, mt, tts).errors
                  /\ output_queue' = output_queue
                  /\ d2_log' = d2_log
                  /\ w_pc' \in {"loop", "log_lock"}
                  /\ w_pc' = "log_lock" => TheValue(w_job').next = "log"
        /\ LoggingReturnsToLoop
        /\ w_pc = "put" => TheValue(w_job).next = "put" ]_vars

\* an utterance abandoned for its empty transcription has its row, and a
\* later utterance has reached D2
C13_Witness ==
    \E row \in db_rows :
        /\ row.thread_id = 2
        /\ "Empty transcription" \in row.errors
        /\ \E k \in DOMAIN d2_log : d2_log[k] > row.item

\* C14: with different languages, when the translation raises, the job goes
\* on with the original text: the synthesis is called, the error list holds
\* the translation error, and if the synthesis succeeds the chunk of the
\* utterance is put into D2.
C14_TranslationErrorFallsBack ==
    [][ /\ TakesFromD1 =>
            \A tts \in TtsOutcomes :
              (translate /\ WorkerGet("text", "raise", tts)) =>
                  /\ JobOf("text", "raise", tts).tts_called
                  /\ "Translation error" \in JobOf("text", "raise", tts).errors
                  /\ tts = "ok" =>
                        /\ w_pc' = "put"
                        /\ w_job' = Some(JobOf("text", "raise", "ok"))
                        /\ TheValue(w_job').translated_text = TheValue(w_job').original_text
                        /\ TheValue(w_job').original_text # ""
        /\ (w_pc = "put" /\ w_pc' # "put") =>
              /\ output_queue' = Append(output_queue, [src |-> TheValue(w_job).item])
              /\ d2_log' = Append(d2_log, TheValue(w_job).item) ]_vars

\* the chunk synthesized from the untranslated text is on its way into D2
C14_Witness ==
    /\ w_pc = "put"
    /\ "Translation error" \in TheValue(w_job).errors
    /\ TheValue(w_job).translated_text = TheValue(w_job).original_text

\* C15: when the synthesis or the decoding of its audio raises, the pass of
\* the loop puts nothing into D2, its error list holds the synthesis error,
\* and it ends at the top of the loop (after the row for the utterance, if
\* it is written).
C15_SynthesisErrorSkipsD2 ==
    [][ /\ TakesFromD1 =>
            \A asr \in AsrOutcomes, mt \in MtOutcomes, tts \in {"raise_tts", "raise_decode"} :
              (WorkerGet(asr, mt, tts) /\ JobOf(asr, mt, tts).tts_called) =>
                  /\ "TTS synthesis error" \in JobOf(asr, mt, tts).errors
                  /\ JobOf(asr, mt, tts).next = "log"
                  /\ output_queue' = output_queue
                  /\ d2_log' = d2_log
                  /\ w_pc' \in {"loop", "log_lock"}
        /\ LoggingReturnsToLoop ]_vars

\* an utterance whose synthesis failed has its row with the error, and a
\* later utterance has reached D2
C15_Witness ==
    \E row \in db_rows :
        /\ row.thread_id = 2
        /\ "TTS synthesis error" \in row.errors
        /\ row.item \notin {d2_log[k] : k \in DOMAIN d2_log}
        /\ \E k \in DOMAIN d2_log : d2_log[k] > row.item

\* ------------------------------------------------------------------------
\* Properties of LazyModelLoader (checked under SpecLoader)
\* ------------------------------------------------------------------------
\* the caller is inside a load that has marked its key
Loading(f) == f.pc \in {"pipeline", "cache_len", "evict_pick", "evict_pop", "insert", "finally"}

\* C16: as long as nothing was evicted and no load failed, pipeline(...) has
\* been invoked at most once for each language pair and every handle
\* get_model has returned for the pair is the one in the cache; a get_model
\* call that reaches the locked block while another thread's load of the pair
\* is in flight (marked, not yet cached) returns None and invokes nothing.
C16_SingleLoadPerPair ==
    [][ /\ (evicted' = {} /\ faults' = 0) =>
              /\ \A key \in TRANSLATION_MODELS : pipeline_calls'[key] <= 1
              /\ \A h \in handed' :
                    /\ h[1] \in DictKeys(translation_models')
                    /\ DictGet(translation_models', h[1]) = h[2]
        /\ \A c \in Callers :
              ( /\ calls[c].pc = "lock"
                /\ calls[c].op = "get"
                /\ calls'[c] # calls[c]
                /\ calls[c].key \in loading_status
                /\ calls[c].key \notin DictKeys(translation_models) ) =>
                  /\ calls'[c] = IdleCall
                  /\ handed' = handed
                  /\ pipeline_calls' = pipeline_calls
                  /\ loading_status' = loading_status ]_vars

\* two get_model calls for the same pair: one has invoked pipeline(...), the
\* other arrives at the locked block meanwhile
C16_Witness ==
    \E c, d \in Callers :
        /\ c # d
        /\ calls[c].op = "get" /\ calls[d].op = "get"
        /\ calls[c].key = calls[d].key
        /\ calls[c].pc = "cache_len"
        /\ calls[d].pc = "lock"
        /\ pipeline_calls[calls[c].key] = 1

\* C17: the number of cached translation models never exceeds max_cache_size.
C17_CacheWithinMaxSize == Len(translation_models) <= max_cache_size

\* C18: the entry removed from a full cache is the least recently used one,
\* an insertion and a hit both counting as a use.
C18_EvictsLeastRecentlyUsed ==
    [][ \A c \in Callers :
            (calls[c].pc = "evict_pop" /\ Len(translation_models') < Len(translation_models))
                => calls[c].oldest_key = use_order[1] ]_vars

\* C19: when pipeline(...) raises, the call returns None, its key is not in
\* the cache, the loading marker of the key is gone, and the marker is held
\* only while a load of the key is in progress, so a later get_model for the
\* key goes on to invoke pipeline(...) again.
C19_FailedLoadCanBeRetried ==
    [][ /\ \A c \in Callers :
              (calls[c].pc = "finally" /\ calls[c].raised = "pipeline" /\ calls'[c] # calls[c]) =>
                  /\ calls[c].model = None
                  /\ handed' = handed
                  /\ calls[c].op = "get" => calls'[c] = IdleCall
                  /\ calls[c].op = "load_all" => calls'[c].results[calls[c].key] = FALSE
                  /\ calls[c].key \notin DictKeys(translation_models')
                  /\ calls[c].key \notin loading_status'
        /\ loading_status' = {calls'[c].key : c \in {d \in Callers : Loading(calls'[d])}}
        /\ \A c \in Callers :
              ( /\ calls[c].pc = "lock"
                /\ calls'[c] # calls[c]
                /\ calls[c].key \notin DictKeys(translation_models)
                /\ \A d \in Callers : Loading(calls[d]) => calls[d].key # calls[c].key ) =>
                  calls'[c].pc = "pipeline" ]_vars

\* a load of the pair has failed and a later call has loaded it
C19_Witness ==
    \E key \in TRANSLATION_MODELS :
        /\ faults >= 1
        /\ evicted = {}
        /\ pipeline_calls[key] = 2
        /\ key \in DictKeys(translation_models)
        /\ key \notin loading_status

\* the supported ordered pairs of different languages of the list
ExpectedPairs(lang_list) ==
    {<<lang_list[i], lang_list[j]>> : i, j \in DOMAIN lang_list}
        \cap {pair \in TRANSLATION_MODELS : pair[1] # pair[2]}

\* the step is the return of a load_all_for_languages call of caller c
LoadAllReturns(c) ==
    /\ calls[c].pc # "idle" \/ n_ops' # n_ops
    /\ calls'[c].pc = "idle"
    /\ calls'[c].op = "load_all"

\* C20 as stated: the map returned by load_all_for_languages has one entry
\* for every supported ordered pair of different languages of the list, and
\* an entry is true exactly when the pair is in the cache at the return.
C20_ResultsTellCacheContents ==
    [][ \A c \in Callers :
            LoadAllReturns(c) =>
                /\ DOMAIN calls'[c].results = ExpectedPairs(calls'[c].lang_list)
                /\ \A pair \in DOMAIN calls'[c].results :
                      calls'[c].results[pair] = (pair \in DictKeys(translation_models')) ]_vars

\* C20, amended: the map has one entry for every supported ordered pair of
\* different languages of the list; a true entry means the pair was cached
\* during the call: it is in the cache at the return or has been evicted
\* since; with nothing evicted every true entry is in the cache; and a call
\* that is the only one made on the loader, with no failing load, returns
\* true for every pair.
C20_ResultsTellLoadOutcome ==
    [][ \A c \in Callers :
            LoadAllReturns(c) =>
                /\ DOMAIN calls'[c].results = ExpectedPairs(calls'[c].lang_list)
                /\ \A pair \in DOMAIN calls'[c].results :
                      /\ calls'[c].results[pair] =>
                            (pair \in DictKeys(translation_models') \/ pair \in evicted')
                      /\ (n_ops' = 1 /\ faults' = 0) => calls'[c].results[pair] ]_vars

\* a call has returned with a true entry for a pair that is no longer in the
\* cache
C20_Witness ==
    \E c \in Callers :
        /\ calls[c].pc = "idle"
        /\ calls[c].op = "load_all"
        /\ \E pair \in DOMAIN calls[c].results :
              calls[c].results[pair] /\ pair \notin DictKeys(translation_models)

\* ------------------------------------------------------------------------
\* Properties of the shutdown of the pipeline (checked under SpecLive)
\* ------------------------------------------------------------------------
\* stop() has been called on the capture stage, the worker and the playback
\* stage
StopRequestedOnAll == stop_event /\ w_stop_event /\ p_stop_event

\* run() of every stage has returned (or was ended by an exception)
AllThreadsTerminated ==
    /\ \A g \in Threads : thread_pc[g] \in {"unborn", "done"}
    /\ w_pc \in {"exited", "dead"}
    /\ p_pc = "exited"

\* C21: once stop has been requested on all three stages, every thread of the
\* pipeline eventually terminates, whatever the queues hold, also when the
\* worker is putting a chunk into a full D2
C21_StopTerminatesAllThreads == StopRequestedOnAll ~> AllThreadsTerminated

\* C22: after stop() was called on the worker, the worker takes no further
\* utterance out of D1 (it only finishes the one it has in hand): no step
\* made with the worker's stop_event set shortens D1, and such a step does not
\* give the worker a new job.
C22_NoDequeueAfterStop ==
    [][ w_stop_event =>
            /\ Len(asr_queue') >= Len(asr_queue)
            /\ (w_job' # None => w_job' = w_job) ]_vars

\* ------------------------------------------------------------------------
\* Properties of the VADProcessor's timing and streaks (checked under SpecVAD)
\* ------------------------------------------------------------------------
\* C23: with the clock advancing by one frame duration per process_frame
\* call, the recording_duration reported with should_stop is at least
\* voice_threshold_ms + silence_threshold_ms minus one frame duration (in ms).
C23_DurationCoversBothThresholds ==
    vad_result.should_stop_recording =>
        TheValue(vad_result.recording_duration)
            >= vad.voice_threshold_ms + vad.silence_threshold_ms - vad.frame_duration

\* the streaks of a processor
BothStreaksZero(v) == v.consecutive_voice_frames = 0 /\ v.consecutive_silence_frames = 0

ExactlyOneStreak(v) == (v.consecutive_voice_frames = 0) # (v.consecutive_silence_frames = 0)

C26_ThresholdsInMilliseconds ==
    [][ AcceptedFrame =>
          /\ vad_result'.should_start_recording =>
                vad'.consecutive_voice_frames * vad.frame_duration >= vad.voice_threshold_ms
          /\ vad_result'.should_stop_recording =>
                vad'.consecutive_silence_frames * vad.frame_duration
                    >= vad.silence_threshold_ms ]_vars

\* ------------------------------------------------------------------------
\* Properties of the frame counters (checked under SpecStats)
\* ------------------------------------------------------------------------
\* C25: whatever the callback, get_stats and reset_stats have done so far,
\* voice_frames <= total_frames, in the counters and in every copy get_stats
\* has returned.
C25_VoiceFramesWithinTotal ==
    /\ stats.voice_frames <= stats.total_frames
    /\ seen_stats # None =>
          TheValue(seen_stats).voice_frames <= TheValue(seen_stats).total_frames

\* ------------------------------------------------------------------------
\* Properties of CircularAudioBuffer (checked under SpecRing)
\* ------------------------------------------------------------------------
\* the most recent n of the samples appended so far, in the order of appending
MostRecent(n) == [i \in 1..n |-> ring_next - n + i - 1]

\* C27: after any sequence of add_samples and clear calls the sample store
\* and the timestamp store have the same length, at most buffer_size, and
\* the samples held are the most recent min(buffer_size, appended since the
\* last clear) samples in the order of appending.
C27_RingHoldsMostRecent ==
    /\ Len(ring.buffer) = Len(ring.timestamps)
    /\ Len(ring.buffer) <= ring.buffer_size
    /\ ring.buffer = MostRecent(Min(ring.buffer_size, ring_total))

\* a buffer of two or more samples that was cleared and has since been
\* given more samples than it holds
C27_Witness ==
    /\ ring.buffer_size >= 2
    /\ ring_next > ring_total
    /\ ring_total > ring.buffer_size
    /\ Len(ring.buffer) = ring.buffer_size

\* C28: get_samples(n), and get_duration_samples(d) with n = int(rate * d),
\* returns the most recent min(n, samples held) samples in order, for every
\* n >= 0, and leaves the buffer as it is.
C28_GetSamplesReturnsTail ==
    [][ ring_read' # ring_read =>
          LET got == TheValue(ring_read')
              n == Min(got.num_samples, Len(ring.buffer))
          IN /\ got.samples = SubSeq(ring.buffer, Len(ring.buffer) - n + 1, Len(ring.buffer))
             /\ ring' = ring ]_vars

\* ------------------------------------------------------------------------
\* Properties of the JitterBuffer (checked under SpecJitter)
\* ------------------------------------------------------------------------
\* stop() has returned and run() is over
SessionClosed == flush_pc = "done" /\ p_pc = "exited"

\* C29: over a playback session closed with stop(), the samples pushed into
\* the jitter buffer are as many as the samples popped from it for playback.
C29_SamplesInEqualSamplesOut == SessionClosed => jit_in = jit_out

\* C30: get_next_chunk never blocks: the playback thread is never inside
\* self.buffer.get() with the buffer empty, also when stop() flushes the
\* buffer from another thread.
C30_GetNextChunkNeverBlocks == ~(p_pc = "jitter_get" /\ jitter = <<>>)

\* ------------------------------------------------------------------------
\* Properties of the worker's normalisation (checked under SpecSynth)
\* ------------------------------------------------------------------------
\* a chunk of zeros
IsSilence(chunk) == \A i \in 1..Len(chunk) : chunk[i].kind = "finite" /\ chunk[i].num = 0

\* C31: every chunk the worker puts into D2 has only finite samples of
\* absolute value at most 1.0, and is silence when the peak of the decoded
\* audio is 0.
C31_ChunkFiniteWithinUnitPeak ==
    synth # None /\ synth.chunk # None =>
        LET chunk == TheValue(synth.chunk)
        IN /\ \A i \in 1..Len(chunk) :
                 chunk[i].kind = "finite" /\ Abs(chunk[i].num) <= chunk[i].den
           /\ (Len(synth.decoded) > 0 /\ MaxAbs(synth.decoded) = 0) => IsSilence(chunk)

\* ------------------------------------------------------------------------
\* Properties of transcribe_long_audio (checked under SpecLong)
\* ------------------------------------------------------------------------
\* ceil(a / b) for positive b
Ceil(a, b) == (a + b - 1) \div b

LongReturned == long_audio # None /\ long_audio.pc = "returned"

IsLong(a) == a.samples > a.chunk_length * SampleRate

\* the calls made on chunks, in call order
ChunkCalls(a) == SelectSeq(a.calls, LAMBDA c : c.of = "chunk")

\* no call of the run raised: every model call returned and the audio was loaded
NothingRaised == faults = 0

\* texts[1], then a space and the next text, and so on, from the left
RECURSIVE JoinedUpTo(_, _)
JoinedUpTo(cs, k) ==
    IF k = 0 THEN <<>>
    ELSE IF k = 1 THEN cs[1].text
    ELSE JoinedUpTo(cs, k - 1) \o <<" ">> \o cs[k].text

RECURSIVE ConcatUpTo(_, _)
ConcatUpTo(cs, k) == IF k = 0 THEN <<>> ELSE ConcatUpTo(cs, k - 1) \o cs[k].text

\* the chunk calls are the consecutive ranges of chunk_length seconds, in order
ChunksInOrder(a) ==
    LET cs == ChunkCalls(a)
        size == a.chunk_length * SampleRate
    IN /\ Len(cs) = Ceil(a.samples, size)
       /\ \A k \in 1..Len(cs) :
             cs[k].lo = (k - 1) * size /\ cs[k].hi = Min(k * size, a.samples)

OpenFailed(g) == thread_pc[g] = "done" /\ ~stop_event

\* C33: when the input device cannot be opened at start-up the capture stage
\* does not report itself as running.
C33_OpenFailureSurfaced ==
    \A g \in Threads : OpenFailed(g) => ~is_running

\* the accumulators at hand: the open one and the payloads waiting in D1
Payloads ==
    (IF current_recording = None THEN {} ELSE {TheValue(current_recording)})
        \cup {[id |-> asr_queue[k].id, pre |-> asr_queue[k].pre, frames |-> asr_queue[k].frames] :
                 k \in 1..Len(asr_queue)}

\* the frame that starts at sample f lies outside the pre-roll window
OutsidePreRoll(rec, f) == f + ChunkSize <= rec.pre[1] \/ f >= rec.pre[2]

\* C34: the frame that raises should_start is not appended to the
\* accumulator and every frame is appended at most once, so that no captured
\* sample is held twice in a payload, the pre-roll included.
C34_NoSampleTwiceInPayload ==
    \A rec \in Payloads :
        /\ \A k \in 1..Len(rec.frames) : OutsidePreRoll(rec, rec.frames[k])
        /\ \A j, k \in 1..Len(rec.frames) : j # k => rec.frames[j] # rec.frames[k]

\* ------------------------------------------------------------------------
\* Properties of the playback of one item (checked under SpecWritten)
\* ------------------------------------------------------------------------
\* every write is a non-empty range of at most 1024 samples and the writes
\* follow one another from sample 0 up to sample `upto`
WritesCover(w, upto) ==
    /\ \A k \in 1..Len(w.writes) :
          /\ w.writes[k][2] - w.writes[k][1] \in 1..PlaybackChunkSize
          /\ w.writes[k][1] = (IF k = 1 THEN 0 ELSE w.writes[k - 1][2])
    /\ upto = (IF w.writes = <<>> THEN 0 ELSE w.writes[Len(w.writes)][2])

ItemOver == written # None /\ written.pc \in {"played", "failed"}

\* C35 as stated: for every item popped from D2 the sub-chunks written are
\* non-empty, at most 1024 samples each, and together the item in its order.
C35_WritesAreTheItem == ItemOver => WritesCover(written, written.samples)

\* C35, amended: the sub-chunks written are non-empty, at most 1024 samples
\* each, and consecutive from the item's first sample; they cover the whole
\* item when no write raises, and the samples before the failing sub-chunk
\* when one does.
C35_WritesAreThePrefix ==
    /\ ItemOver /\ written.pc = "played" => WritesCover(written, written.samples)
    /\ ItemOver /\ written.pc = "failed" =>
          \E upto \in 0..written.samples :
              /\ WritesCover(written, upto)
              /\ upto = written.i - PlaybackChunkSize

\* an item of two full sub-chunks and a shorter third one was played
C35_Witness ==
    /\ ItemOver
    /\ written.pc = "played"
    /\ Len(written.writes) = 3
    /\ written.writes[3][2] - written.writes[3][1] < PlaybackChunkSize

\* ------------------------------------------------------------------------
\* Properties of the decisions of one VADProcessor (checked under SpecDecisions)
\* ------------------------------------------------------------------------
\* C36: on any sequence of frames fed to one VADProcessor the should_start
\* and should_stop decisions alternate strictly, the first one is a
\* should_start, and no decision has both set.
C36_DecisionsAlternate ==
    \A k \in 1..Len(decisions) :
        decisions[k] = (IF k % 2 = 1 THEN "start" ELSE "stop")

\* two utterances were started and one of them stopped, by the frame just fed
C36_Witness ==
    /\ Len(decisions) >= 3
    /\ vad_result.should_start_recording
    /\ vad.is_recording

\* a stream is delivering blocks and no callback or flush is under way
FrameBoundary ==
    /\ \E g \in Threads : thread_pc[g] = "stream"
    /\ \A g \in Threads : thread_pc[g] \notin {"sr_lock", "sr_insert"}

\* C37: at every frame boundary, across callbacks, stop() and start(), the
\* segmenter's recording flag is set exactly when an accumulator is open.
C37_RecordingFlagMatchesAccumulator ==
    FrameBoundary => (vad.is_recording <=> current_recording # None)

\* the three counters an utterance can be accounted for by
Accounted ==
    stats.recordings_created + stats.queue_timeouts + stats.processing_errors

\* no _stop_recording call is under way
NoStopUnderWay == \A g \in Threads : thread_pc[g] \notin {"sr_lock", "sr_insert"}

\* C38: every utterance the capture stage closes adds exactly one to
\* recordings_created, queue_timeouts or processing_errors.  (A run that has
\* closed an utterance had its stream opened, so that no other event of the
\* run adds to these counters.)
C38_EveryClosedUtteranceCountedOnce ==
    NoStopUnderWay /\ stop_calls # <<>> => Accounted = Len(stop_calls)

\* the _run threads that have been started and have not ended
LiveThreads == {g \in Threads : thread_pc[g] \notin {"unborn", "done"}}

\* C39: under any sequence of start() and stop() calls, a stop() whose join
\* timed out included, at most one capture thread is live at any time, and
\* no start() clears the stop request of a thread that is still live.
C39_OneLiveThreadAndStopKept ==
    [][ /\ Cardinality(LiveThreads') <= 1
        /\ (stop_event /\ ~stop_event') => LiveThreads = {} ]_vars

\* ------------------------------------------------------------------------
\* Properties of RealTimeTranslator.start() (checked under SpecTranslator)
\* ------------------------------------------------------------------------
\* the stage threads the latest start() call started that are alive and were
\* never told to stop
LeftRunning ==
    {th \in translator.alive \ translator.stop_requested : th[1] = translator.call}

\* C40: when start() returns False, because a stage failed to initialize or
\* because starting one raised, no stage thread started by that call is left
\* running.
C40_FailedStartLeavesNoThread ==
    translator # None /\ translator.pc = "returned" /\ translator.result = "False"
        => LeftRunning = {}

====
